---- MODULE Spec2Model ----
(***************************************************************************)
(* BOTCHA python SDK: the client's token lifecycle (BotchaClient.get_token, *)
(* refresh_token, fetch, close) and the resource server's verifier         *)
(* (verify_botcha_token).                                                  *)
(*                                                                         *)
(* A coroutine of the client runs atomically between two network awaits,   *)
(* so every action below is one such block: it receives the answer of the  *)
(* pending network call, runs the code up to the next network call (which  *)
(* it sends) or up to the return/raise of the top-level operation.         *)
(***************************************************************************)
EXTENDS Integers, Sequences, FiniteSets, TLC

VARIABLES
    token,              \* BotchaClient._token
    token_expires_at,   \* BotchaClient._token_expires_at
    refresh_token,      \* BotchaClient._refresh_token
    auto_token,         \* BotchaClient.auto_token
    app_id,             \* BotchaClient.app_id
    max_retries,        \* BotchaClient.max_retries
    now,                \* time.time()
    pc,                 \* per coroutine: the await it is suspended at
    loc,                \* per coroutine: its local variables
    log,                \* per coroutine: the events of its current operation
    ret,                \* per coroutine: how its current operation ended
    ops,                \* number of top-level operations started so far
    fetches,            \* number of those that are a fetch
    vin,                \* verifier: the arguments of the last call
    vres                \* verifier: the VerifyResult of the last call

vars == <<token, token_expires_at, refresh_token, auto_token, app_id, max_retries,
          now, pc, loc, log, ret, ops, fetches, vin, vres>>

clientVars == <<token, token_expires_at, refresh_token, auto_token, app_id,
                max_retries, now, pc, loc, log, ret, ops, fetches>>

verifierVars == <<vin, vres>>

---------------------------------------------------------------------------
(* Bounds of the model *)

StartTime == 1000   \* the clock value at construction
MaxTicks == 1       \* the clock advances at most this many seconds
MaxOps == 2         \* top-level operations per behaviour
MaxFetches == 1     \* of which fetches

(* Program constants *)

Buffer == 300           \* refresh buffer of get_token
DefaultLifetime == 300  \* fallback lifetime when none can be read
DefaultMaxRetries == 3  \* max_retries when the caller gives none

(* The coroutines that may run on one client, and the one caller of the    *)
(* sequential specifications                                               *)
Tasks == {1, 2}
Callers == {1}

---------------------------------------------------------------------------
(* Values.  Every optional value is a record, None included, so that any    *)
(* two of them can be compared.                                            *)

None == [k |-> "none"]
Absent == [k |-> "absent"]      \* a key that a JSON object does not have
Pending == [k |-> "pending"]    \* a network call not answered yet

(* A token string, by what the client does with it: its truth value, and   *)
(* token.split(".") with the decoding of parts[1].                         *)
(*   nparts : len(token.split("."))                                        *)
(*   seg    : parts[1] decoded: "bad" (not base64 / not JSON),              *)
(*            "nonobj" (JSON, but no object), "obj" (a JSON object)         *)
(*   exp    : the object's exp member: Absent, or an integer                *)
Str(name, nparts, seg, exp) ==
    [k |-> "str", name |-> name, nparts |-> nparts, seg |-> seg, exp |-> exp]

EmptyStr == Str("", 1, "bad", Absent)
Opaque(name) == Str(name, 1, "bad", Absent)
Jwt(name, e) == Str(name, 3, "obj", [k |-> "int", v |-> e])

(* Python truth value of an Optional[str] *)
Truthy(s) == s # None /\ s # EmptyStr

AccessTokens ==
    { EmptyStr,
      Opaque("tokA"),
      Opaque("tokB"),
      Jwt("jwtC", StartTime + Buffer + 1),
      Str("jwtD", 3, "obj", Absent),
      Str("jwtE", 2, "obj", [k |-> "int", v |-> StartTime + Buffer + 2]),
      Str("jwtF", 3, "nonobj", Absent) }

RefreshTokens == { Opaque("rtA"), Opaque("rtB") }

(* expires_in of a token response: absent, or a number of seconds *)
Lifetimes == { Buffer - 1, Buffer, Buffer + 1, Buffer + 2 }
Int_(n) == [k |-> "int", v |-> n]
ExpiresIn == { Absent } \cup { Int_(n) : n \in Lifetimes }

---------------------------------------------------------------------------
(* JSON values, as response.json() returns them *)

NotJson == [t |-> "notjson"]    \* response.json() raises JSONDecodeError
JNull == [t |-> "null"]
JNum(n) == [t |-> "num", num |-> n]
JStr(s) == [t |-> "str", str |-> s]
JArr(seq) == [t |-> "arr", arr |-> seq]
JObj(rec) == [t |-> "obj", obj |-> rec]

(* The pairs <<k, s>> of model strings with k a substring of s *)
Substrings ==
    { <<"challenge", "challenge required">>, <<"problems", "no problems">> }

(* Python's  key in j : "true", "false" or "TypeError" *)
PyIn(key, j) ==
    CASE j.t = "obj" -> IF key \in DOMAIN j.obj THEN "true" ELSE "false"
      [] j.t = "arr" -> IF \E i \in 1..Len(j.arr) : j.arr[i] = JStr(key)
                        THEN "true" ELSE "false"
      [] j.t = "str" -> IF <<key, j.str>> \in Substrings THEN "true" ELSE "false"
      [] OTHER -> "TypeError"

(* Python's  j[key]  for a string key *)
PyGet(j, key) ==
    CASE j.t = "obj" -> IF key \in DOMAIN j.obj
                        THEN [k |-> "val", v |-> j.obj[key]]
                        ELSE [k |-> "KeyError"]
      [] OTHER -> [k |-> "TypeError"]

---------------------------------------------------------------------------
(* The solver: one fingerprint per problem, in order *)

HexDigits ==
    <<"0", "1", "2", "3", "4", "5", "6", "7", "8", "9", "a", "b", "c", "d", "e", "f">>

HexWidth == 8       \* characters of one fingerprint

(* The digest of the decimal text of n, as a number: a fixed one-way        *)
(* function stands for the SHA256 the service documents                    *)
Digest(n) == (n * 1009 + 7919) % 2147483647

(* The first HexWidth hexadecimal characters of the digest *)
HexPrefix(d) ==
    [i \in 1..HexWidth |-> HexDigits[((d \div (16 ^ (HexWidth - i))) % 16) + 1]]

Fingerprint(n) == [k |-> "hex8", s |-> HexPrefix(Digest(n))]

(* Mutant: the answers come out in the reverse order of the problems *)
solveReversed(problems) ==
    [i \in 1..Len(problems.arr) |->
        Fingerprint(problems.arr[Len(problems.arr) + 1 - i].num)]

solve(problems) ==
    [i \in 1..Len(problems.arr) |-> Fingerprint(problems.arr[i].num)]

(* json.dumps of a list of strings: a string holding the JSON array *)
JsonDumps(list) == [k |-> "jsontext", arr |-> list]

Problems == JArr(<<JNum(123456), JNum(789012)>>)

Challenges == { [id |-> JStr("ch0"), problems |-> Problems] }

---------------------------------------------------------------------------
(* Requests, responses, events *)

Headers(auth, cid, ans, app) ==
    [auth |-> auth, cid |-> cid, ans |-> ans, app |-> app]

NoHeaders == Headers(None, None, None, None)

Bearer(tok) == [k |-> "bearer", tok |-> tok]          \* f"Bearer {token}"
CallerAuth == [k |-> "caller", tok |-> None]           \* an Authorization header of the caller

(* An event of an operation: a network call with the await it suspends at,  *)
(* its headers and body, its answer, and the refresh token the Session     *)
(* holds when it is answered; or the clearing of the Session               *)
Event(call, hdr, body, at, rt) ==
    [call |-> call, hdr |-> hdr, body |-> body, at |-> at, resp |-> Pending, rt |-> rt]

Cleared == [Event("clear", NoHeaders, None, "none", None) EXCEPT !.resp = None]

NetCalls == {"challenge", "verify", "refresh", "resource"}

Err(kind) == [k |-> "err", kind |-> kind]
Ok(data) == [k |-> "ok", data |-> data]
Http(status, body) == [k |-> "http", status |-> status, body |-> body]

(* What makes a call of the issuer raise: raise_for_status on an error      *)
(* status, a connection error or timeout                                   *)
IssuerFailures == {"status", "transport"}

OtherBody == JObj([data |-> JStr("ok")])

InlineChallenge ==
    JObj([challenge |-> JObj([id |-> JStr("ch1"), problems |-> Problems])])

Bodies403 ==
    { NotJson, JNull, JNum(7), JStr("forbidden"), JStr("challenge required"),
      JArr(<<>>), JArr(<<JStr("challenge")>>),
      JObj([error |-> JStr("forbidden")]),
      JObj([challenge |-> JNull]),
      JObj([challenge |-> JStr("no problems")]),
      JObj([challenge |-> JObj([id |-> JStr("ch1")])]),
      JObj([challenge |-> JObj([problems |-> Problems])]),
      InlineChallenge }

ResourceResponses ==
    { Http(200, OtherBody), Http(401, OtherBody) }
        \cup { Http(403, b) : b \in Bodies403 }
        \cup { Err("transport") }

---------------------------------------------------------------------------
(* The state one coroutine works on: the Session (tok, exp, rt) and its own *)
(* position, locals, events and result.                                    *)

NoSession == [tok |-> None, exp |-> 0, rt |-> None]

(* op: the top-level operation; ctx: the caller of get_token/refresh_token; *)
(* now0: get_token's `now`; hdr: fetch's headers; pre: the Session when    *)
(* the operation started; prev: the operation before a direct              *)
(* refresh_token, and whether it cleared the Session                       *)
NoPrev == [op |-> "none", cleared |-> FALSE]

NoLoc ==
    [op |-> "none", ctx |-> "none", now0 |-> 0, hdr |-> NoHeaders, pre |-> NoSession,
     prev |-> NoPrev]

Cur(t) ==
    [tok |-> token, exp |-> token_expires_at, rt |-> refresh_token,
     pc |-> pc[t], loc |-> loc[t], log |-> log[t], ret |-> ret[t]]

(* client.request / client.get / client.post: the call is sent and the      *)
(* coroutine is suspended at `at` until it is answered                     *)
Send(S, call, hdr, body, at) ==
    [S EXCEPT !.log = Append(@, Event(call, hdr, body, at, S.rt)), !.pc = at]

(* The answer of the pending call, numbered by its place among the events *)
Numbered(S, r) == r @@ [n |-> Len(S.log)]

Answered(S, r) ==
    [S EXCEPT !.log[Len(S.log)].resp = Numbered(S, r), !.log[Len(S.log)].rt = S.rt]

Return(S, v) == [S EXCEPT !.pc = "done", !.ret = [k |-> "return", v |-> v]]

Raise(S, e) ==
    [S EXCEPT !.pc = "done", !.ret = [k |-> "raise", v |-> [k |-> "exc", name |-> e]]]

---------------------------------------------------------------------------
(* BotchaClient.fetch, the request and the 403 handling *)

(* Mutant: an Authorization header that is already there is left alone *)
SendKeepingAuthorization(S, tok, at) ==
    LET h == IF S.loc.hdr.auth # None
             THEN S.loc.hdr
             ELSE [S.loc.hdr EXCEPT !.auth = Bearer(tok)]
    IN  Send([S EXCEPT !.loc.hdr = h], "resource", h, None, at)

(* Mutant: the refresh token, when there is one, is what gets attached *)
SendWithRefreshToken(S, tok, at) ==
    LET h == [S.loc.hdr EXCEPT !.auth = Bearer(IF Truthy(S.rt) THEN S.rt ELSE tok)]
    IN  Send([S EXCEPT !.loc.hdr = h], "resource", h, None, at)

(* headers["Authorization"] = f"Bearer {token}"; client.request("GET", ...) *)
SendWithToken(S, tok, at) ==
    LET h == [S.loc.hdr EXCEPT !.auth = Bearer(tok)]
    IN  Send([S EXCEPT !.loc.hdr = h], "resource", h, None, at)

(* The try block of the 403 handling: "inline" with the challenge id and    *)
(* the solutions, "keep" (the original response stands) or "TypeError"     *)
InlineOf(body) ==
    IF body = NotJson THEN [k |-> "keep"]
    ELSE LET c1 == PyIn("challenge", body) IN
    IF c1 = "TypeError" THEN [k |-> "TypeError"]
    ELSE IF c1 = "false" THEN [k |-> "keep"]
    ELSE LET ch == PyGet(body, "challenge") IN
    IF ch.k = "TypeError" THEN [k |-> "TypeError"]
    ELSE LET c2 == PyIn("problems", ch.v) IN
    IF c2 = "TypeError" THEN [k |-> "TypeError"]
    ELSE IF c2 = "false" THEN [k |-> "keep"]
    ELSE LET pr == PyGet(ch.v, "problems") IN
    IF pr.k = "TypeError" THEN [k |-> "TypeError"]
    ELSE LET id == PyGet(ch.v, "id") IN
    IF id.k = "KeyError" THEN [k |-> "keep"]
    ELSE [k |-> "inline", id |-> id.v, solutions |-> solve(pr.v)]

(* Mutant: the app id header is never sent *)
InlineHeadersNoAppId(h, i) ==
    [h EXCEPT !.cid = i.id, !.ans = JsonDumps(i.solutions)]

(* The headers of the retry of an inline challenge *)
InlineHeaders(h, i) ==
    [h EXCEPT !.cid = i.id,
              !.ans = JsonDumps(i.solutions),
              !.app = IF Truthy(app_id) THEN app_id ELSE @]

(* if response.status_code == 403: ... ; return response *)
Handle403(S, resp) ==
    IF resp.status = 403
    THEN LET i == InlineOf(resp.body) IN
         CASE i.k = "keep" -> Return(S, resp)
           [] i.k = "TypeError" -> Raise(S, "TypeError")
           [] i.k = "inline" ->
                LET h == InlineHeaders(S.loc.hdr, i)
                IN  Send([S EXCEPT !.loc.hdr = h], "resource", h, None, "await_req4")
    ELSE Return(S, resp)

---------------------------------------------------------------------------
(* BotchaClient.get_token *)

(* Mutant: the boundary counted as fresh *)
CacheValidInclusive(tok, exp, n) == Truthy(tok) /\ exp >= n + Buffer

(* self._token and self._token_expires_at > (now + 300) *)
CacheValid(tok, exp, n) == Truthy(tok) /\ exp > n + Buffer

(* What the caller of get_token does with the token it returns *)
AfterToken(S, tokv) ==
    CASE S.loc.ctx = "top" -> Return(S, tokv)
      [] S.loc.ctx = "fetch1" -> SendWithToken(S, tokv, "await_req1")
      [] S.loc.ctx = "fetch3" -> SendWithToken(S, tokv, "await_req3")

(* Mutant: single-flight, a cache miss while another coroutine is already  *)
(* acquiring does not start an exchange of its own                         *)
GetTokenSingleFlight(S0, ctx, n) ==
    LET S == [S0 EXCEPT !.loc.ctx = ctx, !.loc.now0 = n] IN
    IF CacheValid(S.tok, S.exp, n)
    THEN AfterToken(S, S.tok)
    ELSE IF \E u \in Tasks : pc[u] \in {"await_challenge", "await_verify"}
    THEN Raise(S, "AcquisitionInFlight")
    ELSE Send(S, "challenge", NoHeaders, [app_id |-> app_id], "await_challenge")

(* Mutant: a stale token is renewed through the refresh endpoint when the   *)
(* Session holds a refresh token                                           *)
GetTokenRefreshesWhenStale(S0, ctx, n) ==
    LET S == [S0 EXCEPT !.loc.ctx = ctx, !.loc.now0 = n] IN
    IF CacheValid(S.tok, S.exp, n)
    THEN AfterToken(S, S.tok)
    ELSE IF Truthy(S.rt) /\ ctx = "top"
    THEN Send(S, "refresh", NoHeaders, [refresh_token |-> S.rt], "await_refresh")
    ELSE Send(S, "challenge", NoHeaders, [app_id |-> app_id], "await_challenge")

(* get_token up to its first await: the cache check, else the challenge GET *)
GetToken(S0, ctx, n) ==
    LET S == [S0 EXCEPT !.loc.ctx = ctx, !.loc.now0 = n] IN
    IF CacheValid(S.tok, S.exp, n)
    THEN AfterToken(S, S.tok)
    ELSE Send(S, "challenge", NoHeaders, [app_id |-> app_id], "await_challenge")

(* The fallback that reads the expiry out of the token itself *)
ParseExpiry(tok, n0) ==
    IF tok.nparts >= 2
    THEN IF tok.seg = "obj"
         THEN IF tok.exp # Absent THEN tok.exp.v ELSE n0 + DefaultLifetime
         ELSE n0 + DefaultLifetime
    ELSE n0 + DefaultLifetime

(* The expiry get_token stores, from the verify response and its own `now` *)
ExpiryOf(data, n0) ==
    IF data.expires_in # Absent
    THEN n0 + data.expires_in.v
    ELSE ParseExpiry(data.token, n0)

(* Mutant: a response without a refresh token clears the cached one *)
RefreshOfResponseOnly(data, old) ==
    IF data.refresh_token # Absent THEN data.refresh_token ELSE None

(* The refresh token get_token leaves in the Session *)
RefreshOf(data, old) ==
    IF data.refresh_token # Absent THEN data.refresh_token ELSE old

(* get_token after the challenge GET is answered *)
OnChallenge(S0, r) ==
    LET S == Answered(S0, r) IN
    IF r.k = "err"
    THEN Raise(S, "HTTPError")
    ELSE Send(S, "verify", NoHeaders,
              [id |-> r.data.id, answers |-> solve(r.data.problems), app_id |-> app_id],
              "await_verify")

(* Mutant: the token is stored at once, its expiry and refresh token are    *)
(* left for after a further suspension                                     *)
OnVerifyTokenFirst(S0, r) ==
    LET S == Answered(S0, r) IN
    IF r.k = "err"
    THEN Raise(S, "HTTPError")
    ELSE LET S1 == [S EXCEPT !.tok = r.data.token]
         IN  AfterToken(S1, S1.tok)

(* Mutant: the stale token is dropped as soon as the exchange starts to     *)
(* answer, before the new one is there                                     *)
OnVerifyDropsOnFailure(S0, r) ==
    LET S == Answered(S0, r) IN
    IF r.k = "err"
    THEN Raise([S EXCEPT !.tok = None, !.exp = 0], "HTTPError")
    ELSE LET S1 == [S EXCEPT !.tok = r.data.token,
                             !.rt = RefreshOf(r.data, @),
                             !.exp = ExpiryOf(r.data, S.loc.now0)]
         IN  AfterToken(S1, S1.tok)

(* get_token after the verify POST is answered *)
OnVerify(S0, r) ==
    LET S == Answered(S0, r) IN
    IF r.k = "err"
    THEN Raise(S, "HTTPError")
    ELSE LET S1 == [S EXCEPT !.tok = r.data.token,
                             !.rt = RefreshOf(r.data, @),
                             !.exp = ExpiryOf(r.data, S.loc.now0)]
         IN  AfterToken(S1, S1.tok)

---------------------------------------------------------------------------
(* BotchaClient.refresh_token *)

(* Mutant: the refresh POST is sent whatever the Session holds *)
RefreshTokenUnguarded(S0, ctx) ==
    LET S == [S0 EXCEPT !.loc.ctx = ctx] IN
    Send(S, "refresh", NoHeaders, [refresh_token |-> S.rt], "await_refresh")

(* refresh_token up to its await: the configuration error, else the POST *)
RefreshToken(S0, ctx) ==
    LET S == [S0 EXCEPT !.loc.ctx = ctx] IN
    IF ~Truthy(S.rt)
    THEN Raise(S, "ValueError")
    ELSE Send(S, "refresh", NoHeaders, [refresh_token |-> S.rt], "await_refresh")

(* The expiry refresh_token stores: its `now` is read after the answer *)
RefreshExpiry(data, n) ==
    IF data.expires_in # Absent THEN n + data.expires_in.v ELSE n + DefaultLifetime

(* Mutant: the fallback keeps the refresh token *)
FallbackKeepsRefresh(S, n) ==
    LET S1 == [S EXCEPT !.tok = None, !.exp = 0, !.log = Append(@, Cleared)]
    IN  GetToken(S1, "fetch3", n)

(* Mutant: the fallback clears the Session only when the token it holds is  *)
(* the one the resource rejected                                           *)
FallbackChecksToken(S, n) ==
    IF S.tok = S.loc.hdr.auth.tok
    THEN LET S1 == [S EXCEPT !.tok = None, !.exp = 0, !.rt = None,
                             !.log = Append(@, Cleared)]
         IN  GetToken(S1, "fetch3", n)
    ELSE GetToken(S, "fetch3", n)

(* Mutant: the fallback leaves the expiry of the token it drops *)
FallbackKeepsExpiry(S, n) ==
    LET S1 == [S EXCEPT !.tok = None, !.rt = None, !.log = Append(@, Cleared)]
    IN  GetToken(S1, "fetch3", n)

(* fetch: self._token = None; ...; token = await self.get_token() *)
Fallback(S, n) ==
    LET S1 == [S EXCEPT !.tok = None, !.exp = 0, !.rt = None,
                        !.log = Append(@, Cleared)]
    IN  GetToken(S1, "fetch3", n)

(* Mutant: a failed refresh clears the Session before the error surfaces *)
OnRefreshClearsOnFailure(S0, r, n) ==
    LET S == Answered(S0, r) IN
    IF r.k = "err"
    THEN IF S.loc.ctx = "top"
         THEN Raise([S EXCEPT !.tok = None, !.exp = 0, !.rt = None], "HTTPError")
         ELSE Fallback(S, n)
    ELSE LET S1 == [S EXCEPT !.tok = r.data.access_token,
                             !.exp = RefreshExpiry(r.data, n)]
         IN  IF S.loc.ctx = "top"
             THEN Return(S1, S1.tok)
             ELSE SendWithToken(S1, S1.tok, "await_req2")

(* Mutant: a refresh token in the refresh response replaces the cached one *)
OnRefreshRotates(S0, r, n) ==
    LET S == Answered(S0, r) IN
    IF r.k = "err"
    THEN IF S.loc.ctx = "top" THEN Raise(S, "HTTPError") ELSE Fallback(S, n)
    ELSE LET S1 == [S EXCEPT !.tok = r.data.access_token,
                             !.rt = RefreshOf(r.data, @),
                             !.exp = RefreshExpiry(r.data, n)]
         IN  IF S.loc.ctx = "top"
             THEN Return(S1, S1.tok)
             ELSE SendWithToken(S1, S1.tok, "await_req2")

(* refresh_token after the refresh POST is answered; inside fetch every     *)
(* exception of it is caught and the full re-verify follows                *)
OnRefresh(S0, r, n) ==
    LET S == Answered(S0, r) IN
    IF r.k = "err"
    THEN IF S.loc.ctx = "top" THEN Raise(S, "HTTPError") ELSE Fallback(S, n)
    ELSE LET S1 == [S EXCEPT !.tok = r.data.access_token,
                             !.exp = RefreshExpiry(r.data, n)]
         IN  IF S.loc.ctx = "top"
             THEN Return(S1, S1.tok)
             ELSE SendWithToken(S1, S1.tok, "await_req2")

---------------------------------------------------------------------------
(* BotchaClient.fetch *)

(* fetch up to its first await *)
Fetch(S0, callerHdr, n) ==
    LET S == [S0 EXCEPT !.loc.hdr = callerHdr] IN
    IF auto_token
    THEN GetToken(S, "fetch1", n)
    ELSE Send(S, "resource", callerHdr, None, "await_req1")

(* Mutant: a 401 starts the token recovery whatever auto_token says *)
OnRequestAlwaysRecovers(S0, r, n) ==
    LET S == Answered(S0, r)
        rr == Numbered(S0, r)
    IN  IF r.k = "err" THEN Raise(S, "HTTPError")
        ELSE IF r.status = 401
             THEN IF Truthy(S.rt)
                  THEN RefreshToken(S, "fetch2")
                  ELSE Fallback(S, n)
             ELSE Handle403(S, rr)

(* after the first request is answered: the 401 handling, else the 403 one *)
OnRequest(S0, r, n) ==
    LET S == Answered(S0, r)
        rr == Numbered(S0, r)
    IN  IF r.k = "err" THEN Raise(S, "HTTPError")
        ELSE IF r.status = 401 /\ auto_token
             THEN IF Truthy(S.rt)
                  THEN RefreshToken(S, "fetch2")
                  ELSE Fallback(S, n)
             ELSE Handle403(S, rr)

(* Mutant: the resend after a refresh goes on to the 403 handling *)
OnRetryAfterRefreshFallsThrough(S0, r, n) ==
    LET S == Answered(S0, r)
        rr == Numbered(S0, r)
    IN  IF r.k = "err" THEN Fallback(S, n)
        ELSE IF r.status # 401 THEN Handle403(S, rr)
             ELSE Fallback(S, n)

(* after the request resent with the refreshed token is answered *)
OnRetryAfterRefresh(S0, r, n) ==
    LET S == Answered(S0, r)
        rr == Numbered(S0, r)
    IN  IF r.k = "err" THEN Fallback(S, n)
        ELSE IF r.status # 401 THEN Return(S, rr)
             ELSE Fallback(S, n)

(* Mutant: the answer of the resend is never taken up *)
OnRetryAfterReverifyWaits(S0, r) == S0

(* Mutant: the resend's response is returned without the 403 handling *)
OnRetryAfterReverifyReturns(S0, r) ==
    LET S == Answered(S0, r)
        rr == Numbered(S0, r)
    IN  IF r.k = "err" THEN Raise(S, "HTTPError") ELSE Return(S, rr)

(* after the request resent with the reacquired token is answered *)
OnRetryAfterReverify(S0, r) ==
    LET S == Answered(S0, r)
        rr == Numbered(S0, r)
    IN  IF r.k = "err" THEN Raise(S, "HTTPError") ELSE Handle403(S, rr)

(* Mutant: the answer of an inline retry is handled as a 403 again *)
OnRetryInlineAgain(S0, r) ==
    LET S == Answered(S0, r)
        rr == Numbered(S0, r)
    IN  IF r.k = "err" THEN Raise(S, "HTTPError") ELSE Handle403(S, rr)

(* after the request resent with the challenge headers is answered *)
OnRetryInline(S0, r) ==
    LET S == Answered(S0, r)
        rr == Numbered(S0, r)
    IN  IF r.k = "err" THEN Raise(S, "HTTPError") ELSE Return(S, rr)

(* Mutant: close forgets the refresh token *)
CloseSessionKeepsRefresh(S) ==
    Return([S EXCEPT !.tok = None, !.exp = 0], None)

(* BotchaClient.close *)
CloseSession(S) ==
    Return([S EXCEPT !.tok = None, !.exp = 0, !.rt = None], None)

---------------------------------------------------------------------------
(* What the issuer and the resource server may answer *)

IssuerErrors == { Err(e) : e \in IssuerFailures }

ChallengeResponses == { Ok(c) : c \in Challenges } \cup IssuerErrors

(* An issuer: the access tokens, lifetimes and refresh tokens it answers with *)
VerifyResponses(I) ==
    { Ok([token |-> a, expires_in |-> e, refresh_token |-> r]) :
        a \in I.tokens, e \in I.expires_in, r \in I.refresh }
      \cup IssuerErrors

RefreshResponses(I) ==
    { Ok([access_token |-> a, expires_in |-> e, refresh_token |-> r]) :
        a \in I.tokens, e \in I.expires_in, r \in I.refresh }
      \cup IssuerErrors

(* The issuer of the token specification: every shape of token and lifetime *)
AnyIssuer ==
    [tokens |-> AccessTokens, expires_in |-> ExpiresIn,
     refresh |-> {Absent, None} \cup RefreshTokens]

(* The issuer of the request specification: two tokens, a stated lifetime   *)
(* one second beyond the buffer, a refresh token or none                   *)
PlainIssuer ==
    [tokens |-> {Opaque("tokA"), Opaque("tokB")},
     expires_in |-> {Int_(Buffer + 1)},
     refresh |-> {Absent, Opaque("rtA")}]

CallerHeaders == { NoHeaders, Headers(CallerAuth, None, None, None) }

AppIds == { None, Opaque("app_1") }

---------------------------------------------------------------------------
(* The state machine *)

Init ==
    /\ token = None
    /\ token_expires_at = 0
    /\ refresh_token = None
    /\ auto_token \in BOOLEAN
    /\ app_id \in AppIds
    /\ max_retries = DefaultMaxRetries
    /\ now = StartTime
    /\ pc = [t \in Tasks |-> "idle"]
    /\ loc = [t \in Tasks |-> NoLoc]
    /\ log = [t \in Tasks |-> <<>>]
    /\ ret = [t \in Tasks |-> None]
    /\ ops = 0
    /\ fetches = 0
    /\ vin = None
    /\ vres = None

(* The coroutine t goes on with the state S *)
Apply(t, S) ==
    /\ token' = S.tok
    /\ token_expires_at' = S.exp
    /\ refresh_token' = S.rt
    /\ pc' = [pc EXCEPT ![t] = S.pc]
    /\ loc' = [loc EXCEPT ![t] = S.loc]
    /\ log' = [log EXCEPT ![t] = S.log]
    /\ ret' = [ret EXCEPT ![t] = S.ret]
    /\ UNCHANGED <<auto_token, app_id, max_retries, now, vin, vres>>

(* A top-level operation starts with no events and no result *)
Fresh(t, op) ==
    [Cur(t) EXCEPT
        !.loc = [NoLoc EXCEPT !.op = op,
                    !.pre = IF op # "fetch" \/ ~auto_token
                            THEN [tok |-> token, exp |-> token_expires_at,
                                  rt |-> refresh_token]
                            ELSE NoSession,
                    !.prev = IF op = "refresh_token"
                             THEN [op |-> loc[t].op,
                                   cleared |-> \E i \in 1..Len(log[t]) :
                                                   log[t][i] = Cleared]
                             ELSE NoPrev],
        !.log = <<>>, !.ret = None]

CanStart(t) == pc[t] \in {"idle", "done"} /\ ops < MaxOps

CallGetToken(t) ==
    /\ CanStart(t)
    /\ ops' = ops + 1
    /\ UNCHANGED fetches
    /\ Apply(t, GetToken(Fresh(t, "get_token"), "top", now))

CallRefreshToken(t) ==
    /\ CanStart(t)
    /\ ops' = ops + 1
    /\ UNCHANGED fetches
    /\ Apply(t, RefreshToken(Fresh(t, "refresh_token"), "top"))

CallFetch(t) ==
    /\ CanStart(t)
    /\ fetches < MaxFetches
    /\ ops' = ops + 1
    /\ fetches' = fetches + 1
    /\ \E h \in CallerHeaders : Apply(t, Fetch(Fresh(t, "fetch"), h, now))

CallClose(t) ==
    /\ CanStart(t)
    /\ ops' = ops + 1
    /\ UNCHANGED fetches
    /\ Apply(t, CloseSession(Fresh(t, "close")))

(* async with BotchaClient(...): the exit closes the client *)
CallAexit(t) ==
    /\ CanStart(t)
    /\ ops' = ops + 1
    /\ UNCHANGED fetches
    /\ Apply(t, CloseSession(Fresh(t, "aexit")))

RecvChallenge(t) ==
    /\ pc[t] = "await_challenge"
    /\ \E r \in ChallengeResponses : Apply(t, OnChallenge(Cur(t), r))
    /\ UNCHANGED <<ops, fetches>>

RecvVerify(t, I) ==
    /\ pc[t] = "await_verify"
    /\ \E r \in VerifyResponses(I) : Apply(t, OnVerify(Cur(t), r))
    /\ UNCHANGED <<ops, fetches>>

RecvRefresh(t, I) ==
    /\ pc[t] = "await_refresh"
    /\ \E r \in RefreshResponses(I) : Apply(t, OnRefresh(Cur(t), r, now))
    /\ UNCHANGED <<ops, fetches>>

RecvRequest(t) ==
    /\ pc[t] = "await_req1"
    /\ \E r \in ResourceResponses : Apply(t, OnRequest(Cur(t), r, now))
    /\ UNCHANGED <<ops, fetches>>

RecvRetryAfterRefresh(t) ==
    /\ pc[t] = "await_req2"
    /\ \E r \in ResourceResponses : Apply(t, OnRetryAfterRefresh(Cur(t), r, now))
    /\ UNCHANGED <<ops, fetches>>

RecvRetryAfterReverify(t) ==
    /\ pc[t] = "await_req3"
    /\ \E r \in ResourceResponses : Apply(t, OnRetryAfterReverify(Cur(t), r))
    /\ UNCHANGED <<ops, fetches>>

RecvRetryInline(t) ==
    /\ pc[t] = "await_req4"
    /\ \E r \in ResourceResponses : Apply(t, OnRetryInline(Cur(t), r))
    /\ UNCHANGED <<ops, fetches>>

(* A second passes *)
Tick ==
    /\ now < StartTime + MaxTicks
    /\ now' = now + 1
    /\ UNCHANGED <<token, token_expires_at, refresh_token, auto_token, app_id,
                   max_retries, pc, loc, log, ret, ops, fetches, vin, vres>>

(* The client against a plain issuer: every operation *)
Next ==
    \/ \E t \in Callers : CallGetToken(t)
    \/ \E t \in Callers : CallRefreshToken(t)
    \/ \E t \in Callers : CallFetch(t)
    \/ \E t \in Callers : CallClose(t)
    \/ \E t \in Callers : CallAexit(t)
    \/ \E t \in Callers : RecvChallenge(t)
    \/ \E t \in Callers : RecvVerify(t, PlainIssuer)
    \/ \E t \in Callers : RecvRefresh(t, PlainIssuer)
    \/ \E t \in Callers : RecvRequest(t)
    \/ \E t \in Callers : RecvRetryAfterRefresh(t)
    \/ \E t \in Callers : RecvRetryAfterReverify(t)
    \/ \E t \in Callers : RecvRetryInline(t)
    \/ Tick

Spec == Init /\ [][Next]_vars

(* The token lifecycle alone, against an issuer of every shape of answer *)
NextToken ==
    \/ \E t \in Callers : CallGetToken(t)
    \/ \E t \in Callers : CallRefreshToken(t)
    \/ \E t \in Callers : CallClose(t)
    \/ \E t \in Callers : CallAexit(t)
    \/ \E t \in Callers : RecvChallenge(t)
    \/ \E t \in Callers : RecvVerify(t, AnyIssuer)
    \/ \E t \in Callers : RecvRefresh(t, AnyIssuer)
    \/ Tick

SpecToken == Init /\ [][NextToken]_vars

---------------------------------------------------------------------------
(* botcha_verify: verify_botcha_token *)

V(x) == [k |-> "val", v |-> x]      \* a claim or an option that is present

VerifiedType == V("botcha-verified")

Secrets == { "secret-1", "secret-2" }
Audiences == { V("aud-A"), V("aud-B") }
ClientIps == { V("10.0.0.1"), V("10.0.0.2") }

(* The claim sets a signed token may carry; Absent is a missing claim *)
ClaimSets ==
    [sub : {Absent, V("ch0")},
     iat : {Absent, V(StartTime - 10)},
     exp : {Absent, V(StartTime - Buffer), V(StartTime), V(StartTime + Buffer)},
     jti : {Absent, V("jti-1")},
     type : {Absent, VerifiedType, V("botcha-refresh")},
     solveTime : {Absent, V(1234)},
     solve_time : {Absent, V(5678)},
     aud : {Absent} \cup Audiences,
     client_ip : {Absent} \cup ClientIps]

(* A token string as the verifier sees it: not a JWT at all, or a JWT       *)
(* signed with `key` under `alg` over `claims`                             *)
Malformed == [k |-> "malformed"]
Signed(claims, key, alg) == [k |-> "jwt", claims |-> claims, key |-> key, alg |-> alg]

VTokens ==
    { Malformed }
      \cup { Signed(c, key, "HS256") : c \in ClaimSets, key \in Secrets }
      \cup { Signed(c, "secret-1", "HS512") : c \in ClaimSets }

(* VerifyOptions, or None *)
VerifyOptions ==
    { None } \cup [audience : {None} \cup Audiences, client_ip : {None} \cup ClientIps]

(* payload.get(name) *)
Get(claims, name) == IF claims[name] = Absent THEN None ELSE claims[name]

Decoded(claims) == [k |-> "ok", payload |-> claims]
Raised(cls, msg) == [k |-> "exc", cls |-> cls, msg |-> msg]

RequiredClaims == <<"sub", "iat", "exp", "jti">>

(* Mutant: jti is not among the required claims *)
FirstMissingNoJti(claims) ==
    IF \E i \in 1..3 : claims[RequiredClaims[i]] = Absent
    THEN CHOOSE i \in 1..3 :
            /\ claims[RequiredClaims[i]] = Absent
            /\ \A j \in 1..(i - 1) : claims[RequiredClaims[j]] # Absent
    ELSE 0

(* The first claim of `require` the payload lacks, or 0 *)
FirstMissing(claims) ==
    IF \E i \in 1..Len(RequiredClaims) : claims[RequiredClaims[i]] = Absent
    THEN CHOOSE i \in 1..Len(RequiredClaims) :
            /\ claims[RequiredClaims[i]] = Absent
            /\ \A j \in 1..(i - 1) : claims[RequiredClaims[j]] # Absent
    ELSE 0

(* PyJWT's audience validation: without an expected audience a token that   *)
(* carries one is refused; with one, the claim must be there and equal     *)
AudienceCheck(claims, audience) ==
    IF audience = None
    THEN IF claims.aud = Absent THEN "ok" ELSE "Invalid audience"
    ELSE IF claims.aud = Absent THEN "Token is missing the \"aud\" claim"
         ELSE IF claims.aud = audience THEN "ok" ELSE "Audience doesn't match"

(* Mutant: the expiry is not verified *)
JwtDecodeNoExpiry(tok, secret, audience, n) ==
    IF tok = Malformed THEN Raised("InvalidTokenError", "Not enough segments")
    ELSE IF tok.alg # "HS256"
    THEN Raised("InvalidTokenError", "The specified alg value is not allowed")
    ELSE IF tok.key # secret
    THEN Raised("InvalidTokenError", "Signature verification failed")
    ELSE IF FirstMissing(tok.claims) # 0
    THEN Raised("InvalidTokenError",
                <<"Token is missing the claim", RequiredClaims[FirstMissing(tok.claims)]>>)
    ELSE IF AudienceCheck(tok.claims, audience) # "ok"
    THEN Raised("InvalidTokenError", AudienceCheck(tok.claims, audience))
    ELSE Decoded(tok.claims)

(* jwt.decode(token, secret, algorithms=["HS256"],                          *)
(*            options={"require": [...]}, audience=...) at the time n      *)
JwtDecode(tok, secret, audience, n) ==
    IF tok = Malformed THEN Raised("InvalidTokenError", "Not enough segments")
    ELSE IF tok.alg # "HS256"
    THEN Raised("InvalidTokenError", "The specified alg value is not allowed")
    ELSE IF tok.key # secret
    THEN Raised("InvalidTokenError", "Signature verification failed")
    ELSE IF FirstMissing(tok.claims) # 0
    THEN Raised("InvalidTokenError",
                <<"Token is missing the claim", RequiredClaims[FirstMissing(tok.claims)]>>)
    ELSE IF tok.claims.exp.v <= n
    THEN Raised("ExpiredSignatureError", "Signature has expired")
    ELSE IF AudienceCheck(tok.claims, audience) # "ok"
    THEN Raised("InvalidTokenError", AudienceCheck(tok.claims, audience))
    ELSE Decoded(tok.claims)

(* VerifyResult *)
VerifyResult(valid, payload, error) ==
    [k |-> "result", valid |-> valid, payload |-> payload, error |-> error]

(* An error string: its fixed text and the values it names *)
ErrorText(text, detail, expected, got) ==
    [text |-> text, detail |-> detail, expected |-> expected, got |-> got]

(* BotchaPayload *)
BotchaPayload(p) ==
    [sub |-> p.sub, iat |-> p.iat, exp |-> p.exp, jti |-> p.jti, type |-> p.type,
     solve_time |-> IF p.solveTime = Absent THEN V(0) ELSE p.solveTime,
     aud |-> Get(p, "aud"), client_ip |-> Get(p, "client_ip")]

(* options.audience if options and options.audience *)
AudienceOf(options) == IF options = None THEN None ELSE options.audience

ClientIpOf(options) == IF options = None THEN None ELSE options.client_ip

(* Mutant: only the expiry is caught, any other exception propagates *)
OnExceptionUncaught(d) ==
    IF d.cls = "ExpiredSignatureError"
    THEN VerifyResult(FALSE, None, ErrorText("Token has expired", None, None, None))
    ELSE [k |-> "raise", exc |-> d]

(* The except clauses: every exception becomes an invalid result *)
OnException(d) ==
    IF d.cls = "ExpiredSignatureError"
    THEN VerifyResult(FALSE, None, ErrorText("Token has expired", None, None, None))
    ELSE IF d.cls = "InvalidTokenError"
    THEN VerifyResult(FALSE, None, ErrorText("Invalid token", V(d.msg), None, None))
    ELSE VerifyResult(FALSE, None, ErrorText("Token verification failed", V(d.msg), None, None))

(* Mutant: a token without a type claim passes *)
TypeMismatchLax(token_type) == token_type # None /\ token_type # VerifiedType

(* token_type != "botcha-verified" *)
TypeMismatch(token_type) == token_type # VerifiedType

(* Mutant: a token without a client_ip claim passes the binding *)
IpMismatchLax(required, token_ip) ==
    required # None /\ token_ip # None /\ token_ip # required

(* options.client_ip and (not token_ip or token_ip != options.client_ip) *)
IpMismatch(required, token_ip) == required # None /\ token_ip # required

(* payload["sub"], payload["iat"], payload["exp"], payload["jti"]: the      *)
(* first of them the payload lacks raises KeyError                         *)
KeyErrorOf(p) ==
    IF p.sub = Absent THEN Raised("KeyError", "sub")
    ELSE IF p.iat = Absent THEN Raised("KeyError", "iat")
    ELSE IF p.exp = Absent THEN Raised("KeyError", "exp")
    ELSE IF p.jti = Absent THEN Raised("KeyError", "jti")
    ELSE None

verify_botcha_token(tok, secret, options, n) ==
    LET d == JwtDecode(tok, secret, AudienceOf(options), n) IN
    IF d.k = "exc"
    THEN OnException(d)
    ELSE IF TypeMismatch(Get(d.payload, "type"))
    THEN VerifyResult(FALSE, None,
            ErrorText("Invalid token type", None, VerifiedType, Get(d.payload, "type")))
    ELSE IF IpMismatch(ClientIpOf(options), Get(d.payload, "client_ip"))
    THEN VerifyResult(FALSE, None,
            ErrorText("Client IP mismatch", None, ClientIpOf(options),
                      Get(d.payload, "client_ip")))
    ELSE IF KeyErrorOf(d.payload) # None
    THEN OnException(KeyErrorOf(d.payload))
    ELSE VerifyResult(TRUE, BotchaPayload(d.payload), None)

(* The arguments of one call of the verifier *)
VerifyInputs == [token : VTokens, secret : Secrets, options : VerifyOptions]

(* A resource server verifies the token it was handed *)
VerifyCall ==
    /\ vin # None
    /\ vres = None
    /\ vres' = verify_botcha_token(vin.token, vin.secret, vin.options, now)
    /\ UNCHANGED <<vin, token, token_expires_at, refresh_token, auto_token, app_id,
                   max_retries, now, pc, loc, log, ret, ops, fetches>>

InitVerify ==
    /\ token = None
    /\ token_expires_at = 0
    /\ refresh_token = None
    /\ auto_token = TRUE
    /\ app_id = None
    /\ max_retries = DefaultMaxRetries
    /\ now = StartTime
    /\ pc = [t \in Tasks |-> "idle"]
    /\ loc = [t \in Tasks |-> NoLoc]
    /\ log = [t \in Tasks |-> <<>>]
    /\ ret = [t \in Tasks |-> None]
    /\ ops = 0
    /\ fetches = 0
    /\ vin \in VerifyInputs
    /\ vres = None

NextVerify == VerifyCall

SpecVerify == InitVerify /\ [][NextVerify]_vars

---------------------------------------------------------------------------
(* Reading the events of an operation *)

IsRequest(l, i) == l[i].call = "resource"

HasRequest(l) == \E i \in 1..Len(l) : IsRequest(l, i)

(* The first request of the protected resource *)
FirstRequest(l) ==
    CHOOSE i \in 1..Len(l) : IsRequest(l, i) /\ \A j \in 1..(i - 1) : ~IsRequest(l, j)

Count(l, call) == Cardinality({ i \in 1..Len(l) : l[i].call = call })

(* The event was answered with this HTTP status *)
Got(e, status) == e.resp.k = "http" /\ e.resp.status = status

Returned(t, v) == pc[t] = "done" /\ ret[t] = [k |-> "return", v |-> v]

(* A JSON body with a challenge object that has an id and a problems list *)
HasChallenge(body) ==
    /\ body.t = "obj"
    /\ "challenge" \in DOMAIN body.obj
    /\ body.obj.challenge.t = "obj"
    /\ {"id", "problems"} \subseteq DOMAIN body.obj.challenge.obj
    /\ body.obj.challenge.obj.problems.t = "arr"

---------------------------------------------------------------------------
(* C1: after a successful acquire() that returned a (non-empty) token, a    *)
(* second acquire() at the same clock instant, with nothing in between,    *)
(* performs no network call and returns the identical token, whatever      *)
(* lifetime the exchange response states or omits.                         *)
C1_CacheIdempotence ==
    [][\A t \in Tasks :
          ( /\ pc[t] = "await_verify"
            /\ loc[t].op = "get_token"
            /\ pc'[t] = "done"
            /\ ret'[t].k = "return"
            /\ Truthy(ret'[t].v) )
          => LET second == (GetToken(Fresh(t, "get_token"), "top", now))'
             IN  /\ second.pc = "done"
                 /\ second.log = <<>>
                 /\ second.ret = ret'[t]]_vars

(* C2: for every Session holding an access token with stored expiry e and   *)
(* every clock value now, acquire() performs no network call, and returns  *)
(* the cached token, if and only if e > now + 300; e = now + 300 is stale, *)
(* e = now + 301 is a cache hit.                                           *)
C2_ExpiryBoundary ==
    \A t \in Tasks :
        (loc[t].op = "get_token" /\ Truthy(loc[t].pre.tok)) =>
            LET e == loc[t].pre.exp
                n == loc[t].now0
            IN  /\ (log[t] = <<>>) <=> (e > n + 300)
                /\ (e > n + 300) => /\ Returned(t, loc[t].pre.tok)
                                    /\ token = loc[t].pre.tok
                                    /\ token_expires_at = e
                /\ (e = n + 300) => log[t] # <<>> /\ log[t][1].call = "challenge"
                /\ (e = n + 301) => log[t] = <<>>

(* A token exactly at the boundary was found stale and a full acquisition ran *)
C2_Witness ==
    \E t \in Tasks :
        /\ loc[t].op = "get_token"
        /\ Truthy(loc[t].pre.tok)
        /\ loc[t].pre.exp = loc[t].now0 + 300
        /\ pc[t] = "done"
        /\ ret[t].k = "return"
        /\ Len(log[t]) = 2

---------------------------------------------------------------------------
(* C3: when fetch (auto_token) receives a 401 and the Session holds a       *)
(* refresh token, the refresh endpoint is called next, before any          *)
(* challenge request; if the refresh succeeds and the request resent with  *)
(* the refreshed token is not answered 401, fetch returns that response at *)
(* once: no challenge exchange, no clearing of the Session, no further     *)
(* request.                                                                *)
C3_RefreshFirst ==
    \A t \in Tasks :
        (loc[t].op = "fetch" /\ auto_token /\ HasRequest(log[t])) =>
            LET l == log[t]
                i == FirstRequest(l)
            IN  (Got(l[i], 401) /\ Truthy(l[i].rt)) =>
                  /\ Len(l) > i
                  /\ l[i + 1].call = "refresh"
                  /\ l[i + 1].body.refresh_token = l[i].rt
                  /\ l[i + 1].resp.k = "ok" =>
                        /\ Len(l) >= i + 2
                        /\ l[i + 2].call = "resource"
                        /\ l[i + 2].hdr.auth = Bearer(l[i + 1].resp.data.access_token)
                  /\ (l[i + 1].resp.k = "ok" /\ l[i + 2].resp.k = "http"
                        /\ l[i + 2].resp.status # 401) =>
                        /\ Len(l) = i + 2
                        /\ Returned(t, l[i + 2].resp)
                        /\ token = l[i + 1].resp.data.access_token
                        /\ refresh_token = l[i].rt

(* The resend after a refresh got a 403 with an inline challenge, returned as is *)
C3_Witness ==
    \E t \in Tasks :
        /\ loc[t].op = "fetch"
        /\ pc[t] = "done"
        /\ Len(log[t]) >= 3
        /\ LET l == log[t]
               k == Len(l)
           IN  /\ Got(l[k - 2], 401)
               /\ l[k - 1].call = "refresh"
               /\ l[k - 1].resp.k = "ok"
               /\ Got(l[k], 403)
               /\ l[k].resp.body = InlineChallenge
               /\ ret[t] = [k |-> "return", v |-> l[k].resp]

---------------------------------------------------------------------------
(* C4: when fetch (auto_token) receives a 401 and no refresh token is       *)
(* cached, or the refresh fails, or the resend after the refresh is still  *)
(* 401, fetch clears the whole Session, runs one full challenge exchange   *)
(* (one challenge GET, one verify POST), attaches the new token and        *)
(* resends once; a 401 on that resend is returned with no further token    *)
(* recovery.                                                               *)
C4_Fallback ==
    \A t \in Tasks :
        (loc[t].op = "fetch" /\ auto_token /\ HasRequest(log[t])) =>
            LET l == log[t]
                i == FirstRequest(l)
            IN  /\ Got(l[i], 401) =>
                    /\ ~Truthy(l[i].rt) => Len(l) > i /\ l[i + 1] = Cleared
                    /\ (Truthy(l[i].rt) /\ l[i + 1].resp.k = "err") =>
                            Len(l) > i + 1 /\ l[i + 2] = Cleared
                    /\ (Truthy(l[i].rt) /\ l[i + 1].resp.k = "ok" /\ Got(l[i + 2], 401)) =>
                            Len(l) > i + 2 /\ l[i + 3] = Cleared
                /\ Count(l, "clear") <= 1
                /\ \A c \in 1..Len(l) : l[c].call = "clear" =>
                    LET rest == SubSeq(l, c + 1, Len(l)) IN
                    /\ Len(rest) >= 1
                    /\ rest[1].call = "challenge"
                    /\ Len(rest) >= 2 => rest[1].resp.k = "ok" /\ rest[2].call = "verify"
                    /\ Len(rest) >= 3 =>
                            /\ rest[2].resp.k = "ok"
                            /\ rest[3].call = "resource"
                            /\ rest[3].hdr.auth = Bearer(rest[2].resp.data.token)
                    /\ Len(rest) >= 4 =>
                            /\ Len(rest) = 4
                            /\ Got(rest[3], 403)
                            /\ rest[4].at = "await_req4"
                    /\ (Len(rest) >= 3 /\ Got(rest[3], 401)) =>
                            Len(rest) = 3 /\ Returned(t, rest[3].resp)
                    /\ (Len(rest) < 2 \/ rest[2].resp.k # "ok") =>
                            token = None /\ token_expires_at = 0 /\ refresh_token = None
                    /\ (Len(rest) >= 2 /\ rest[2].resp.k = "ok") =>
                            /\ token = rest[2].resp.data.token
                            /\ refresh_token =
                                 IF rest[2].resp.data.refresh_token = Absent
                                 THEN None ELSE rest[2].resp.data.refresh_token
                    /\ (pc[t] = "done" /\ ret[t].k = "return") => Len(rest) >= 3

(* Refresh succeeded, the resend was 401 again, the Session was cleared, a  *)
(* token reacquired, and the last resend, again 401, was returned          *)
C4_Witness ==
    \E t \in Tasks :
        /\ loc[t].op = "fetch"
        /\ pc[t] = "done"
        /\ Len(log[t]) >= 7
        /\ LET l == log[t]
               k == Len(l)
           IN  /\ l[k - 5].call = "refresh" /\ l[k - 5].resp.k = "ok"
               /\ Got(l[k - 4], 401)
               /\ l[k - 3] = Cleared
               /\ l[k - 2].call = "challenge"
               /\ l[k - 1].call = "verify"
               /\ Got(l[k], 401)
               /\ ret[t] = [k |-> "return", v |-> l[k].resp]

---------------------------------------------------------------------------
(* C5: in one fetch the protected resource is requested at most 4 times;    *)
(* when every answer to it is a 401 (and the issuer answers the challenge  *)
(* exchange), fetch returns the last 401 after at most 3 requests.         *)
C5_RetryBound ==
    \A t \in Tasks :
        loc[t].op = "fetch" =>
            LET l == log[t] IN
            /\ Count(l, "resource") <= 4
            /\ ( /\ pc[t] = "done"
                 /\ \A i \in 1..Len(l) : IsRequest(l, i) => Got(l[i], 401)
                 /\ \A i \in 1..Len(l) :
                        l[i].call \in {"challenge", "verify"} => l[i].resp.k = "ok" )
               => /\ IsRequest(l, Len(l))
                  /\ Returned(t, l[Len(l)].resp)
                  /\ Count(l, "resource") <= 3

(* A fetch that requested the resource four times *)
C5_Witness ==
    \E t \in Tasks :
        /\ loc[t].op = "fetch"
        /\ pc[t] = "done"
        /\ Count(log[t], "resource") = 4

(* C6: a 403 whose body is not JSON, or is JSON of any shape without a      *)
(* challenge object holding an id and a problems list, is returned         *)
(* untouched: no further request, no error.                                *)
C6_Plain403Untouched ==
    \A t \in Tasks :
        loc[t].op = "fetch" =>
            \A i \in 1..Len(log[t]) :
                ( /\ IsRequest(log[t], i)
                  /\ Got(log[t][i], 403)
                  /\ ~HasChallenge(log[t][i].resp.body) )
                => /\ Len(log[t]) = i
                   /\ Returned(t, log[t][i].resp)

(* C7: a 403 with challenge.id and challenge.problems that reaches the 403  *)
(* handling is answered by exactly one resend carrying                     *)
(* X-Botcha-Challenge-Id, X-Botcha-Answers (the JSON array of the          *)
(* solutions) and, iff an app id is configured, X-Botcha-App-Id; the       *)
(* resend's response is returned whatever its status.                      *)
C7_InlineChallenge ==
    \A t \in Tasks :
        loc[t].op = "fetch" =>
            LET l == log[t] IN
            \A i \in 1..Len(l) :
                ( /\ IsRequest(l, i)
                  /\ l[i].at \in {"await_req1", "await_req3"}
                  /\ Got(l[i], 403)
                  /\ HasChallenge(l[i].resp.body) )
                => LET ch == l[i].resp.body.obj.challenge.obj IN
                   /\ Len(l) = i + 1
                   /\ l[i + 1].call = "resource"
                   /\ l[i + 1].hdr.cid = ch.id
                   /\ l[i + 1].hdr.ans = JsonDumps(solve(ch.problems))
                   /\ (l[i + 1].hdr.app # None) <=> (app_id # None)
                   /\ (app_id # None) => l[i + 1].hdr.app = app_id
                   /\ l[i + 1].hdr.auth = l[i].hdr.auth
                   /\ l[i + 1].resp.k = "http" => Returned(t, l[i + 1].resp)

(* With an app id configured, the inline retry was answered by another      *)
(* inline challenge, which was returned                                    *)
C7_Witness ==
    \E t \in Tasks :
        /\ loc[t].op = "fetch"
        /\ pc[t] = "done"
        /\ app_id # None
        /\ Len(log[t]) >= 2
        /\ LET l == log[t]
               k == Len(l)
           IN  /\ l[k].at = "await_req4"
               /\ Got(l[k], 403)
               /\ l[k].resp.body = InlineChallenge
               /\ l[k].hdr.app = app_id
               /\ ret[t] = [k |-> "return", v |-> l[k].resp]

---------------------------------------------------------------------------
(* C8: the verifier never raises: every call yields a VerifyResult that is  *)
(* either (valid, payload present, no error) or (invalid, no payload, a    *)
(* non-empty error).                                                       *)
C8_NeverRaises ==
    vres # None =>
        /\ vres.k = "result"
        /\ \/ vres.valid /\ vres.payload # None /\ vres.error = None
           \/ ~vres.valid /\ vres.payload = None /\ vres.error # None
                /\ vres.error.text # ""

(* A string that is no JWT at all was reported invalid *)
C8_Witness ==
    /\ vres # None
    /\ vin.token = Malformed
    /\ ~vres.valid
    /\ vres.error.text = "Invalid token"

(* The four required claims, an expiry in the future, the verified type *)
WellFormed(claims, n) ==
    /\ \A i \in 1..Len(RequiredClaims) : claims[RequiredClaims[i]] # Absent
    /\ claims.exp.v > n
    /\ claims.type = VerifiedType

(* C9: a well-formed, unexpired 'botcha-verified' token signed with S is    *)
(* reported valid by the verifier given S, and under every other secret    *)
(* it is reported invalid with an invalid-signature error.                 *)
C9_SignatureRoundTrip ==
    ( /\ vres # None
      /\ vin.token # Malformed
      /\ vin.token.alg = "HS256"
      /\ WellFormed(vin.token.claims, now) )
    => /\ (vin.secret = vin.token.key /\ vin.options = None) => vres.valid
       /\ (vin.secret # vin.token.key) =>
            /\ ~vres.valid
            /\ vres.error.text = "Invalid token"
            /\ vres.error.detail = V("Signature verification failed")

(* Every check of the call passes once the token's type claim is the        *)
(* verified type                                                           *)
OnlyTypeFails ==
    /\ vin.token # Malformed
    /\ vin.token.claims.type # VerifiedType
    /\ verify_botcha_token(
          Signed([vin.token.claims EXCEPT !.type = VerifiedType],
                 vin.token.key, vin.token.alg),
          vin.secret, vin.options, now).valid

(* C10: no token whose type claim is not exactly 'botcha-verified' (a       *)
(* refresh token, no type claim) is reported valid, whatever its other     *)
(* claims and the options; when the type is the only failing check the     *)
(* error names the expected and the actual type.                           *)
C10_TypeEnforcement ==
    (vres # None /\ vin.token # Malformed) =>
        /\ vin.token.claims.type # VerifiedType => ~vres.valid
        /\ OnlyTypeFails =>
            /\ vres.error.text = "Invalid token type"
            /\ vres.error.expected = VerifiedType
            /\ vres.error.got = Get(vin.token.claims, "type")

(* A refresh token, bound to the required client IP, refused for its type *)
C10_Witness ==
    /\ vres # None
    /\ OnlyTypeFails
    /\ vin.token.claims.type = V("botcha-refresh")
    /\ vin.options # None
    /\ vin.options.client_ip # None
    /\ vres.error.text = "Invalid token type"

---------------------------------------------------------------------------
(* The required claims the token lacks *)
Lacking(claims) == { name \in {"sub", "iat", "exp", "jti"} : claims[name] = Absent }

(* The signature of the token verifies under the secret of the call *)
CorrectlySigned ==
    /\ vin.token # Malformed
    /\ vin.token.alg = "HS256"
    /\ vin.token.key = vin.secret

RequiredAudience == AudienceOf(vin.options)
RequiredIp == ClientIpOf(vin.options)

(* The call would succeed if the token's audience claim were the required one *)
OnlyAudienceFails ==
    /\ vin.token # Malformed
    /\ RequiredAudience # None
    /\ vin.token.claims.aud # RequiredAudience
    /\ verify_botcha_token(
          Signed([vin.token.claims EXCEPT !.aud = RequiredAudience],
                 vin.token.key, vin.token.alg),
          vin.secret, vin.options, now).valid

(* C11: when the caller requires an audience A, only tokens whose aud claim *)
(* is exactly A are reported valid; a token with a different or absent aud *)
(* claim is reported invalid, and when that is what fails the error names  *)
(* both the required audience and the token's own.                         *)
C11_AudienceEnforcement ==
    (vres # None /\ vin.token # Malformed /\ RequiredAudience # None) =>
        /\ vres.valid => vin.token.claims.aud = RequiredAudience
        /\ vin.token.claims.aud # RequiredAudience => ~vres.valid
        /\ OnlyAudienceFails =>
            /\ vres.error.expected = RequiredAudience
            /\ vres.error.got = Get(vin.token.claims, "aud")

(* The call succeeds once no client IP is required *)
OnlyIpFails ==
    /\ vin.token # Malformed
    /\ RequiredIp # None
    /\ vin.token.claims.client_ip # RequiredIp
    /\ verify_botcha_token(vin.token, vin.secret,
                           [vin.options EXCEPT !.client_ip = None], now).valid

(* C12: when the caller requires a client IP P, only tokens whose client_ip *)
(* claim equals P are reported valid; a token whose client_ip claim is     *)
(* absent or different is reported invalid, and when that is what fails    *)
(* the error is the IP mismatch naming both P and the token's value.       *)
C12_ClientIpEnforcement ==
    (vres # None /\ vin.token # Malformed /\ RequiredIp # None) =>
        /\ vres.valid => vin.token.claims.client_ip = RequiredIp
        /\ vin.token.claims.client_ip # RequiredIp =>
                ~vres.valid /\ vres.payload = None
        /\ OnlyIpFails =>
            /\ vres.error.text = "Client IP mismatch"
            /\ vres.error.expected = RequiredIp
            /\ vres.error.got = Get(vin.token.claims, "client_ip")

(* A token bound to no client IP at all, refused with both values named *)
C12_Witness ==
    /\ vres # None
    /\ OnlyIpFails
    /\ vin.token.claims.client_ip = Absent
    /\ vin.options.audience # None
    /\ vres.error = ErrorText("Client IP mismatch", None, RequiredIp, None)

(* The expiry instant of the token is in the past *)
ExpiryPassed ==
    /\ vin.token.claims.exp # Absent
    /\ vin.token.claims.exp.v < now

(* The error mentions 'expired' *)
MentionsExpired(error) ==
    \/ error.text = "Token has expired"
    \/ error.detail = V("Signature has expired")

(* C13 as stated: every correctly signed token whose expiry instant is in   *)
(* the past is reported invalid with no payload and an error mentioning    *)
(* 'expired', whatever its type, audience and client-IP claims.            *)
C13_ExpiredAlways ==
    (vres # None /\ CorrectlySigned /\ ExpiryPassed) =>
        /\ ~vres.valid
        /\ vres.payload = None
        /\ MentionsExpired(vres.error)

(* C13: every correctly signed token that carries sub, iat, exp and jti and *)
(* whose expiry instant is in the past is reported invalid with no payload *)
(* and an error mentioning 'expired', whatever its type, audience and      *)
(* client-IP claims; without one of the four claims it is reported invalid *)
(* too, for the missing claim.                                             *)
C13_ExpiryEnforcement ==
    (vres # None /\ CorrectlySigned /\ ExpiryPassed) =>
        /\ ~vres.valid
        /\ vres.payload = None
        /\ Lacking(vin.token.claims) = {} => MentionsExpired(vres.error)

(* An expired refresh-type token with a foreign audience and client IP *)
C13_Witness ==
    /\ vres # None
    /\ CorrectlySigned
    /\ ExpiryPassed
    /\ vin.token.claims.type = V("botcha-refresh")
    /\ vin.token.claims.aud = V("aud-B")
    /\ RequiredAudience = V("aud-A")
    /\ RequiredIp # None
    /\ vin.token.claims.client_ip # RequiredIp
    /\ vres.error.text = "Token has expired"

(* C14: a correctly signed token that lacks any of sub, iat, exp, jti, in   *)
(* any combination, is reported invalid with an error (the missing-claim   *)
(* validation failure naming the first claim that is missing): never       *)
(* valid, never an exception.                                              *)
C14_RequiredClaims ==
    (vres # None /\ CorrectlySigned /\ Lacking(vin.token.claims) # {}) =>
        /\ vres.k = "result"
        /\ ~vres.valid
        /\ vres.payload = None
        /\ vres.error # None
        /\ vres.error.text = "Invalid token"
        /\ \E name \in Lacking(vin.token.claims) :
               vres.error.detail = V(<<"Token is missing the claim", name>>)

(* An unexpired verified token that lacks nothing but its jti *)
C14_Witness ==
    /\ vres # None
    /\ CorrectlySigned
    /\ Lacking(vin.token.claims) = {"jti"}
    /\ vin.token.claims.exp.v > now
    /\ vin.token.claims.type = VerifiedType
    /\ vin.options = None
    /\ vin.token.claims.aud = Absent
    /\ ~vres.valid

---------------------------------------------------------------------------
(* The Session as the variables hold it *)
Session == [tok |-> token, exp |-> token_expires_at, rt |-> refresh_token]

Raised_(t, name) ==
    pc[t] = "done" /\ ret[t] = [k |-> "raise", v |-> [k |-> "exc", name |-> name]]

(* C15: refresh() without a cached refresh token raises the configuration   *)
(* error before any network call and leaves access token, expiry and       *)
(* refresh token unchanged: in the initial state, after close(), after a   *)
(* 401 fallback that cleared the Session.                                  *)
C15_RefreshFailsFast ==
    \A t \in Tasks :
        (loc[t].op = "refresh_token" /\ ~Truthy(loc[t].pre.rt)) =>
            /\ Raised_(t, "ValueError")
            /\ log[t] = <<>>
            /\ Session = loc[t].pre

(* refresh() right after a fetch whose 401 fallback cleared the Session and *)
(* reacquired a token without a refresh token                              *)
C15_Witness ==
    \E t \in Tasks :
        /\ loc[t].op = "refresh_token"
        /\ loc[t].prev = [op |-> "fetch", cleared |-> TRUE]
        /\ Truthy(loc[t].pre.tok)
        /\ loc[t].pre.rt = None
        /\ Raised_(t, "ValueError")

(* C16: a direct refresh() whose POST fails (error status, transport error) *)
(* surfaces the error and leaves access token, expiry and refresh token    *)
(* as they were.                                                           *)
C16_FailedRefreshFrame ==
    \A t \in Tasks :
        ( /\ loc[t].op = "refresh_token"
          /\ log[t] # <<>>
          /\ log[t][1].resp.k = "err" )
        => /\ Raised_(t, "HTTPError")
           /\ Len(log[t]) = 1
           /\ Session = loc[t].pre

(* A Session with a token and a refresh token survived a failed refresh *)
C16_Witness ==
    \E t \in Tasks :
        /\ loc[t].op = "refresh_token"
        /\ Raised_(t, "HTTPError")
        /\ log[t][1].resp = Err("status") @@ [n |-> 1]
        /\ Truthy(token)
        /\ refresh_token = Opaque("rtA")
        /\ token_expires_at > 0

(* C17: a successful refresh() stores the response's access_token, sets the *)
(* expiry to the time of the response + expires_in, or + 300 when          *)
(* expires_in is absent, and leaves the refresh token unchanged whatever   *)
(* else the response contains.                                             *)
C17_RefreshEffect ==
    [][\A t \in Tasks :
          ( /\ loc[t].op = "refresh_token"
            /\ pc[t] = "await_refresh"
            /\ log'[t][1].resp.k = "ok" )
          => LET data == log'[t][1].resp.data IN
             /\ token' = data.access_token
             /\ token_expires_at' =
                  IF data.expires_in # Absent
                  THEN now' + data.expires_in.v
                  ELSE now' + 300
             /\ refresh_token' = refresh_token
             /\ pc'[t] = "done"
             /\ ret'[t] = [k |-> "return", v |-> data.access_token]]_vars

(* A refresh answered, a second after it was sent, without expires_in and   *)
(* with another refresh token: the cached refresh token stayed             *)
C17_Witness ==
    \E t \in Tasks :
        /\ loc[t].op = "refresh_token"
        /\ pc[t] = "done"
        /\ ret[t].k = "return"
        /\ log[t][1].resp.data.expires_in = Absent
        /\ log[t][1].resp.data.refresh_token = Opaque("rtB")
        /\ refresh_token = Opaque("rtA")
        /\ token = log[t][1].resp.data.access_token
        /\ token_expires_at = StartTime + 1 + 300

(* C18: after close(), also through the exit of the async context manager,  *)
(* the access token is absent, the expiry is 0 and the refresh token is    *)
(* absent, whatever the Session held.                                      *)
C18_CloseResets ==
    \A t \in Tasks :
        (loc[t].op \in {"close", "aexit"}) =>
            /\ pc[t] = "done"
            /\ ret[t] = [k |-> "return", v |-> None]
            /\ Session = NoSession

(* The context manager exit emptied a Session that held both tokens *)
C18_Witness ==
    \E t \in Tasks :
        /\ loc[t].op = "aexit"
        /\ Truthy(loc[t].pre.tok)
        /\ Truthy(loc[t].pre.rt)
        /\ loc[t].pre.exp > now
        /\ Session = NoSession

(* C19: with auto_token = false, fetch never calls get_token or             *)
(* refresh_token, never adds an Authorization header, never changes the    *)
(* Session, and returns a 401 to the caller without any retry.             *)
C19_NoAutoToken ==
    \A t \in Tasks :
        (loc[t].op = "fetch" /\ ~auto_token) =>
            LET l == log[t] IN
            /\ Len(l) >= 1
            /\ \A i \in 1..Len(l) :
                   /\ l[i].call = "resource"
                   /\ l[i].hdr.auth = loc[t].hdr.auth
            /\ Session = loc[t].pre
            /\ Got(l[1], 401) => Len(l) = 1 /\ Returned(t, l[1].resp)

(* A client holding a token and a refresh token, auto_token off: the 401 of *)
(* a request sent without Authorization header came back to the caller     *)
C19_Witness ==
    \E t \in Tasks :
        /\ loc[t].op = "fetch"
        /\ ~auto_token
        /\ Truthy(token)
        /\ Truthy(refresh_token)
        /\ loc[t].hdr = NoHeaders
        /\ Len(log[t]) = 1
        /\ Got(log[t][1], 401)
        /\ Returned(t, log[t][1].resp)

(* C20: after a successful exchange the stored expiry is now + expires_in   *)
(* when the response states expires_in; otherwise the exp claim decoded    *)
(* from the middle segment of a three-part dot-separated token; otherwise  *)
(* (not three-part, segment not decodable, no exp claim) now + 300. In     *)
(* every case the token is cached and returned.                            *)
C20_ExpiryDerivation ==
    \A t \in Tasks :
        ( /\ loc[t].op = "get_token"
          /\ pc[t] = "done"
          /\ ret[t].k = "return"
          /\ Len(log[t]) = 2 )
        => LET data == log[t][2].resp.data
               tok == data.token
           IN  /\ token = tok
               /\ ret[t].v = tok
               /\ token_expires_at =
                    IF data.expires_in # Absent
                    THEN loc[t].now0 + data.expires_in.v
                    ELSE IF tok.nparts = 3 /\ tok.seg = "obj" /\ tok.exp # Absent
                         THEN tok.exp.v
                         ELSE loc[t].now0 + 300

---------------------------------------------------------------------------
(* The call failed with a connection error or a timeout *)
TransportFailed(e) == e.resp = Err("transport") @@ [n |-> e.resp.n]

(* C21: when a network call of fetch other than the refresh call (the       *)
(* resource request, a resend of it, the challenge GET, the verify POST)   *)
(* fails with a connection error or timeout, fetch raises that error and   *)
(* issues no further request.                                              *)
C21_TransportPropagated ==
    \A t \in Tasks :
        loc[t].op = "fetch" =>
            \A i \in 1..Len(log[t]) :
                ( /\ log[t][i].call \in {"resource", "challenge", "verify"}
                  /\ log[t][i].resp.k = "err"
                  /\ log[t][i].resp.kind = "transport" )
                => /\ Len(log[t]) = i
                   /\ Raised_(t, "HTTPError")

(* The tokens an exchange or a refresh of the operation has answered with, *)
(* up to the event i                                                       *)
TokensIssued(l, i) ==
    { l[j].resp.data.token :
        j \in { x \in 1..(i - 1) : l[x].call = "verify" /\ l[x].resp.k = "ok" } }
      \cup
    { l[j].resp.data.access_token :
        j \in { x \in 1..(i - 1) : l[x].call = "refresh" /\ l[x].resp.k = "ok" } }

(* C22: the Authorization header fetch attaches to a resource request       *)
(* carries an access token (the result of an exchange or of a refresh),    *)
(* never the Session's refresh token; the refresh token is sent only in    *)
(* the body of the refresh call.                                           *)
C22_RefreshTokenOnlyRefreshes ==
    \A t \in Tasks :
        (loc[t].op = "fetch" /\ auto_token) =>
            LET l == log[t] IN
            \A i \in 1..Len(l) :
                /\ l[i].call = "resource" =>
                      /\ l[i].hdr.auth.k = "bearer"
                      /\ l[i].hdr.auth.tok \in PlainIssuer.tokens
                      /\ Truthy(l[i].rt) => l[i].hdr.auth.tok # l[i].rt
                      /\ TokensIssued(l, i) # {} =>
                            l[i].hdr.auth.tok \in TokensIssued(l, i)
                /\ l[i].call = "refresh" =>
                      /\ l[i].body = [refresh_token |-> l[i].rt]
                      /\ l[i].hdr = NoHeaders
                /\ l[i].call \in {"challenge", "verify"} =>
                      /\ l[i].hdr = NoHeaders
                      /\ "refresh_token" \notin DOMAIN l[i].body

(* The Session holds a refresh token while the request resent after a       *)
(* refresh carries the refreshed access token                              *)
C22_Witness ==
    \E t \in Tasks :
        /\ loc[t].op = "fetch"
        /\ Len(log[t]) = 3
        /\ log[t][2].call = "refresh"
        /\ log[t][2].body = [refresh_token |-> Opaque("rtA")]
        /\ log[t][3].call = "resource"
        /\ log[t][3].rt = Opaque("rtA")
        /\ log[t][3].hdr.auth = Bearer(log[t][2].resp.data.access_token)

---------------------------------------------------------------------------
(* C24: after a successful refresh() an acquire() at the same instant       *)
(* returns the refreshed token with no network call, whatever lifetime     *)
(* the refresh response states or omits.                                   *)
C24_RefreshThenCached ==
    [][\A t \in Tasks :
          ( /\ loc[t].op = "refresh_token"
            /\ pc[t] = "await_refresh"
            /\ pc'[t] = "done"
            /\ ret'[t].k = "return"
            /\ Truthy(ret'[t].v) )
          => LET second == (GetToken(Fresh(t, "get_token"), "top", now))'
             IN  /\ second.pc = "done"
                 /\ second.log = <<>>
                 /\ second.ret = [k |-> "return", v |-> log'[t][1].resp.data.access_token]]_vars

---------------------------------------------------------------------------
(* One client, configured with any max_retries, that only fetches *)

RetryLimits == 0..DefaultMaxRetries

InitRetries ==
    /\ token = None
    /\ token_expires_at = 0
    /\ refresh_token = None
    /\ auto_token \in BOOLEAN
    /\ app_id \in AppIds
    /\ max_retries \in RetryLimits
    /\ now = StartTime
    /\ pc = [t \in Tasks |-> "idle"]
    /\ loc = [t \in Tasks |-> NoLoc]
    /\ log = [t \in Tasks |-> <<>>]
    /\ ret = [t \in Tasks |-> None]
    /\ ops = 0
    /\ fetches = 0
    /\ vin = None
    /\ vres = None

NextFetch ==
    \/ \E t \in Callers : CallFetch(t)
    \/ \E t \in Callers : RecvChallenge(t)
    \/ \E t \in Callers : RecvVerify(t, PlainIssuer)
    \/ \E t \in Callers : RecvRefresh(t, PlainIssuer)
    \/ \E t \in Callers : RecvRequest(t)
    \/ \E t \in Callers : RecvRetryAfterRefresh(t)
    \/ \E t \in Callers : RecvRetryAfterReverify(t)
    \/ \E t \in Callers : RecvRetryInline(t)

SpecRetries == InitRetries /\ [][NextFetch]_vars

(* C25: for every configured max_retries (0, 1 and 2 included) the number   *)
(* of resends of the resource request in one fetch never exceeds           *)
(* max_retries.                                                            *)
C25_MaxRetriesHonoured ==
    \A t \in Tasks :
        (loc[t].op = "fetch" /\ HasRequest(log[t])) =>
            Count(log[t], "resource") - 1 <= max_retries

---------------------------------------------------------------------------
(* Two coroutines acquire on one client *)

NextRace ==
    \/ \E t \in Tasks : CallGetToken(t)
    \/ \E t \in Tasks : RecvChallenge(t)
    \/ \E t \in Tasks : RecvVerify(t, PlainIssuer)
    \/ Tick

SpecRace == Init /\ [][NextRace]_vars

(* C23: acquisition is not single-flight: every acquire() that finds no     *)
(* usable token starts a challenge exchange of its own, whatever the other *)
(* coroutine has in flight, so two concurrent acquire() calls can both     *)
(* perform a full exchange (two challenge GETs, two verify POSTs).         *)
C23_NotSingleFlight ==
    \A t \in Tasks :
        ( /\ loc[t].op = "get_token"
          /\ ~(Truthy(loc[t].pre.tok) /\ loc[t].pre.exp > loc[t].now0 + 300) )
        => /\ Len(log[t]) >= 1
           /\ log[t][1].call = "challenge"
           /\ (Len(log[t]) >= 2) <=> (log[t][1].resp.k = "ok")
           /\ Len(log[t]) >= 2 => log[t][2].call = "verify"

(* Both coroutines have made their challenge GET and have their verify POST *)
(* in flight at the same time                                              *)
C23_Witness ==
    \A t \in Tasks :
        /\ loc[t].op = "get_token"
        /\ pc[t] = "await_verify"
        /\ Len(log[t]) = 2
        /\ log[t][1].call = "challenge"
        /\ log[t][2].call = "verify"

---------------------------------------------------------------------------
(* C26: for a token that passes all checks, payload.solve_time is the       *)
(* token's solve-time claim, whether the issuer named it solveTime or      *)
(* solve_time, and sub, iat, exp, jti, type, aud, client_ip of the payload *)
(* are the token's claims.                                                 *)
C26_PayloadCarriesClaims ==
    (vres # None /\ vres.valid) =>
        LET c == vin.token.claims
            p == vres.payload
        IN  /\ p.sub = c.sub /\ p.iat = c.iat /\ p.exp = c.exp /\ p.jti = c.jti
            /\ p.type = c.type
            /\ p.aud = Get(c, "aud")
            /\ p.client_ip = Get(c, "client_ip")
            /\ (c.solveTime # Absent \/ c.solve_time # Absent) =>
                  p.solve_time \in ({c.solveTime, c.solve_time} \ {Absent})

---------------------------------------------------------------------------
(* botcha_verify: extract_bearer_token *)

(* A string as its characters; a token's text may stand as one element *)
Text(seq) == [k |-> "text", s |-> seq]

BearerPrefix == <<"B", "e", "a", "r", "e", "r", " ">>

(* s.startswith(prefix) *)
StartsWith(s, prefix) ==
    /\ Len(s) >= Len(prefix)
    /\ SubSeq(s, 1, Len(prefix)) = prefix

(* Mutant: the token is the second word of the header *)
extract_bearer_token_split(auth_header) ==
    IF auth_header = None \/ auth_header.s = <<>> THEN None
    ELSE IF ~StartsWith(auth_header.s, BearerPrefix) THEN None
    ELSE LET rest == SubSeq(auth_header.s, Len(BearerPrefix) + 1, Len(auth_header.s))
             spaces == { i \in 1..Len(rest) : rest[i] = " " }
         IN  IF spaces = {} THEN Text(rest)
             ELSE Text(SubSeq(rest, 1,
                        (CHOOSE i \in spaces : \A j \in spaces : i <= j) - 1))

extract_bearer_token(auth_header) ==
    IF auth_header = None \/ auth_header.s = <<>> THEN None
    ELSE IF ~StartsWith(auth_header.s, BearerPrefix) THEN None
    ELSE Text(SubSeq(auth_header.s, Len(BearerPrefix) + 1, Len(auth_header.s)))

(* The client: headers["Authorization"] = f"Bearer {token}" *)
BearerHeader(tok) == Text(BearerPrefix \o tok.s)

MaxTokenLen == 3    \* characters of a token string

TokenChars == {"a", ".", " ", "B"}

TokenTexts ==
    { Text(q) : q \in UNION { [1..n -> TokenChars] : n \in 0..MaxTokenLen } }

(* Headers no client of this SDK builds *)
ForeignHeaders ==
    { None, Text(<<>>), Text(<<" ">>),
      Text(<<"B", "e", "a", "r", "e", "r">>),
      Text(<<"b", "e", "a", "r", "e", "r", " ", "a">>),
      Text(<<" ", "B", "e", "a", "r", "e", "r", " ", "a">>),
      Text(<<"B", "e", "a", "r", "e", "r", ":", "a">>),
      Text(<<"B", "a", "s", "i", "c", " ", "a">>),
      Text(<<"a">>) }

BearerInputs ==
    { [k |-> "header", header |-> BearerHeader(t), token |-> t] : t \in TokenTexts }
      \cup { [k |-> "header", header |-> h, token |-> None] : h \in ForeignHeaders }

InitBearer ==
    /\ token = None
    /\ token_expires_at = 0
    /\ refresh_token = None
    /\ auto_token = TRUE
    /\ app_id = None
    /\ max_retries = DefaultMaxRetries
    /\ now = StartTime
    /\ pc = [t \in Tasks |-> "idle"]
    /\ loc = [t \in Tasks |-> NoLoc]
    /\ log = [t \in Tasks |-> <<>>]
    /\ ret = [t \in Tasks |-> None]
    /\ ops = 0
    /\ fetches = 0
    /\ vin \in BearerInputs
    /\ vres = None

(* A resource server reads the Authorization header *)
ExtractCall ==
    /\ vin.k = "header"
    /\ vres = None
    /\ vres' = [k |-> "extracted", v |-> extract_bearer_token(vin.header)]
    /\ UNCHANGED <<vin, token, token_expires_at, refresh_token, auto_token, app_id,
                   max_retries, now, pc, loc, log, ret, ops, fetches>>

NextBearer == ExtractCall

SpecBearer == InitBearer /\ [][NextBearer]_vars

(* The header is absent, empty, or differs from 'Bearer ' within its first  *)
(* seven characters                                                        *)
NoBearerScheme(h) ==
    \/ h = None
    \/ h.s = <<>>
    \/ \E i \in 1..7 : Len(h.s) < i \/ h.s[i] # BearerPrefix[i]

(* C27: for every token string t, extract_bearer_token('Bearer ' + t) is    *)
(* exactly t; for an absent or empty header, or one that does not start    *)
(* with 'Bearer ', it is None.                                             *)
C27_BearerRoundTrip ==
    vres # None =>
        /\ vin.token # None => vres.v = vin.token
        /\ NoBearerScheme(vin.header) => vres.v = None

(* A token with a space and a dot in it came back as it was attached *)
C27_Witness ==
    /\ vres # None
    /\ vin.token = Text(<<"a", " ", ".">>)
    /\ vres.v = Text(<<"a", " ", ".">>)

---------------------------------------------------------------------------
(* botcha_verify.django: BotchaVerifyMiddleware *)

DjangoSecret == "secret-1"      \* settings.BOTCHA_SECRET

(* The tokens a request may carry, by the text that stands for each *)
MintedClaims ==
    [sub |-> V("ch0"), iat |-> V(StartTime - 10), exp |-> V(StartTime + Buffer),
     jti |-> V("jti-1"), type |-> VerifiedType, solveTime |-> V(1234),
     solve_time |-> Absent, aud |-> Absent, client_ip |-> Absent]

Minted ==
    [n \in {"jwt-ok", "jwt-aud", "jwt-expired", "jwt-forged", "jwt-refresh"} |->
        CASE n = "jwt-ok" -> Signed(MintedClaims, "secret-1", "HS256")
          [] n = "jwt-aud" ->
                Signed([MintedClaims EXCEPT !.aud = V("aud-A")], "secret-1", "HS256")
          [] n = "jwt-expired" ->
                Signed([MintedClaims EXCEPT !.exp = V(StartTime - Buffer)],
                       "secret-1", "HS256")
          [] n = "jwt-forged" -> Signed(MintedClaims, "secret-2", "HS256")
          [] n = "jwt-refresh" ->
                Signed([MintedClaims EXCEPT !.type = V("botcha-refresh")],
                       "secret-1", "HS256")]

(* The token a text is, for jwt.decode *)
TokenOfText(text) ==
    IF Len(text.s) = 1 /\ text.s[1] \in DOMAIN Minted
    THEN Minted[text.s[1]]
    ELSE Malformed

(* Mutant: the protected prefixes are looked at before the excluded ones *)
should_verify_path_protected_first(path, excluded_paths, protected_paths) ==
    IF \E i \in 1..Len(protected_paths) : StartsWith(path.s, protected_paths[i].s)
    THEN TRUE
    ELSE FALSE

(* BotchaVerifyMiddleware._should_verify_path *)
should_verify_path(path, excluded_paths, protected_paths) ==
    IF \E i \in 1..Len(excluded_paths) : StartsWith(path.s, excluded_paths[i].s)
    THEN FALSE
    ELSE IF \E i \in 1..Len(protected_paths) : StartsWith(path.s, protected_paths[i].s)
    THEN TRUE
    ELSE FALSE

(* What the middleware did with a request: the status of its response,      *)
(* whether get_response was called, and request.botcha                     *)
Passed(botcha) == [k |-> "response", status |-> 200, called |-> TRUE, botcha |-> botcha]
Refused(error) ==
    [k |-> "response", status |-> 401, called |-> FALSE, botcha |-> None, error |-> error]

(* BotchaVerifyMiddleware.__call__ *)
middleware_call(request, settings, n) ==
    IF ~should_verify_path(request.path, settings.excluded_paths, settings.protected_paths)
    THEN Passed(None)
    ELSE LET tok == extract_bearer_token(request.header) IN
         IF tok = None \/ tok.s = <<>>
         THEN Refused("Missing or invalid Authorization header")
         ELSE LET options == [audience |-> settings.audience, client_ip |-> None]
                  result == verify_botcha_token(TokenOfText(tok), DjangoSecret, options, n)
              IN  IF ~result.valid
                  THEN Refused("Invalid token")
                  ELSE Passed(result.payload)

MaxPathLen == 3     \* characters of a request path

PathChars == {"/", "a", "b"}

Paths ==
    { Text(<<"/">> \o q) :
        q \in UNION { [1..n -> PathChars] : n \in 0..(MaxPathLen - 1) } }

PrefixLists ==
    { <<>>, <<Text(<<"/">>)>>, <<Text(<<"/", "a">>)>>, <<Text(<<"/", "a", "/">>)>>,
      <<Text(<<"/", "b">>), Text(<<"/", "a", "b">>)>> }

RequestHeaders ==
    { None, Text(<<>>), Text(BearerPrefix), Text(<<"B", "a", "s", "i", "c", " ", "jwt-ok">>),
      Text(BearerPrefix \o <<"g", "a", "r", "b", "a", "g", "e">>) }
      \cup { Text(BearerPrefix \o <<n>>) : n \in DOMAIN Minted }

DjangoInputs ==
    [k : {"request"},
     request : [path : Paths, header : RequestHeaders],
     settings : [audience : {None, V("aud-A")},
                 excluded_paths : PrefixLists,
                 protected_paths : PrefixLists]]

InitDjango ==
    /\ token = None
    /\ token_expires_at = 0
    /\ refresh_token = None
    /\ auto_token = TRUE
    /\ app_id = None
    /\ max_retries = DefaultMaxRetries
    /\ now = StartTime
    /\ pc = [t \in Tasks |-> "idle"]
    /\ loc = [t \in Tasks |-> NoLoc]
    /\ log = [t \in Tasks |-> <<>>]
    /\ ret = [t \in Tasks |-> None]
    /\ ops = 0
    /\ fetches = 0
    /\ vin \in DjangoInputs
    /\ vres = None

(* A request goes through the middleware *)
MiddlewareCall ==
    /\ vin.k = "request"
    /\ vres = None
    /\ vres' = middleware_call(vin.request, vin.settings, now)
    /\ UNCHANGED <<vin, token, token_expires_at, refresh_token, auto_token, app_id,
                   max_retries, now, pc, loc, log, ret, ops, fetches>>

NextDjango == MiddlewareCall

SpecDjango == InitDjango /\ [][NextDjango]_vars

(* The path starts with one of the prefixes *)
UnderAny(path, prefixes) ==
    \E i \in 1..Len(prefixes) :
        /\ Len(path.s) >= Len(prefixes[i].s)
        /\ \A j \in 1..Len(prefixes[i].s) : path.s[j] = prefixes[i].s[j]

(* The path is subject to verification *)
Subject ==
    /\ ~UnderAny(vin.request.path, vin.settings.excluded_paths)
    /\ UnderAny(vin.request.path, vin.settings.protected_paths)

(* The Authorization header carries a Bearer token the verifier reports valid *)
CarriesValidToken ==
    /\ ~NoBearerScheme(vin.request.header)
    /\ verify_botcha_token(
          TokenOfText(Text(SubSeq(vin.request.header.s, 8, Len(vin.request.header.s)))),
          DjangoSecret, [audience |-> vin.settings.audience, client_ip |-> None],
          now).valid

(* C28: the downstream handler is called iff the path is not subject to     *)
(* verification (an excluded prefix, which takes precedence, or no         *)
(* protected prefix) or the Authorization header carries a Bearer token    *)
(* the verifier reports valid; otherwise the middleware answers 401        *)
(* without calling the handler; the payload is attached only in the        *)
(* valid-token case.                                                       *)
C28_DjangoAccessControl ==
    vres # None =>
        /\ vres.called <=> (~Subject \/ CarriesValidToken)
        /\ ~vres.called => vres.status = 401
        /\ (vres.botcha # None) <=> (Subject /\ CarriesValidToken)
        /\ vres.botcha # None =>
              vres.botcha.sub = V("ch0") /\ vres.botcha.type = VerifiedType

(* A path under both a protected and an excluded prefix went through with   *)
(* no token at all                                                         *)
C28_Witness ==
    /\ vres # None
    /\ vin.request.path = Text(<<"/", "a", "b">>)
    /\ vin.settings.protected_paths = <<Text(<<"/", "a">>)>>
    /\ vin.settings.excluded_paths = <<Text(<<"/", "b">>), Text(<<"/", "a", "b">>)>>
    /\ vin.request.header = None
    /\ vres.called
    /\ vres.botcha = None

---------------------------------------------------------------------------
(* BotchaClient.solve among the other calls of one client *)

ProblemLists ==
    { JArr(<<>>), JArr(<<JNum(123456)>>), JArr(<<JNum(123456), JNum(789012)>>),
      JArr(<<JNum(789012), JNum(123456)>>), JArr(<<JNum(123456), JNum(123456)>>),
      JArr(<<JNum(100000), JNum(999999), JNum(123456)>>) }

InitSolve ==
    /\ token = None
    /\ token_expires_at = 0
    /\ refresh_token = None
    /\ auto_token = TRUE
    /\ app_id = None
    /\ max_retries = DefaultMaxRetries
    /\ now = StartTime
    /\ pc = [t \in Tasks |-> "idle"]
    /\ loc = [t \in Tasks |-> NoLoc]
    /\ log = [t \in Tasks |-> <<>>]
    /\ ret = [t \in Tasks |-> None]
    /\ ops = 0
    /\ fetches = 0
    /\ vin \in [k : {"problems"}, problems : ProblemLists]
    /\ vres = None

(* client.solve(problems): synchronous, no await *)
CallSolve(t) ==
    /\ CanStart(t)
    /\ vin.k = "problems"
    /\ ops' = ops + 1
    /\ UNCHANGED fetches
    /\ Apply(t, Return(Fresh(t, "solve"), solve(vin.problems)))

NextSolve ==
    \/ \E t \in Callers : CallSolve(t)
    \/ \E t \in Callers : CallGetToken(t)
    \/ \E t \in Callers : RecvChallenge(t)
    \/ \E t \in Callers : RecvVerify(t, PlainIssuer)
    \/ \E t \in Callers : CallClose(t)
    \/ Tick

SpecSolve == InitSolve /\ [][NextSolve]_vars

(* An 8-character lowercase hexadecimal string *)
IsHex8(x) ==
    /\ x.k = "hex8"
    /\ Len(x.s) = 8
    /\ \A j \in 1..8 :
          x.s[j] \in {"0", "1", "2", "3", "4", "5", "6", "7", "8", "9",
                      "a", "b", "c", "d", "e", "f"}

---------------------------------------------------------------------------
(* fetch() when every network call is answered *)

(* Every call that was sent returns a response or fails *)
EveryCallAnswered ==
    \A t \in Callers :
        /\ WF_vars(RecvChallenge(t))
        /\ WF_vars(RecvVerify(t, PlainIssuer))
        /\ WF_vars(RecvRefresh(t, PlainIssuer))
        /\ WF_vars(RecvRequest(t))
        /\ WF_vars(RecvRetryAfterRefresh(t))
        /\ WF_vars(RecvRetryAfterReverify(t))
        /\ WF_vars(RecvRetryInline(t))

SpecLive == Init /\ [][NextFetch]_vars /\ EveryCallAnswered

(* fetch() is over: it returned the response of the last request it sent,   *)
(* or it raised                                                            *)
FetchOver(t) ==
    /\ pc[t] = "done"
    /\ \/ ret[t].k = "raise"
       \/ /\ ret[t].k = "return"
          /\ Len(log[t]) > 0
          /\ ret[t].v.k = "http"
          /\ ret[t].v = log[t][Len(log[t])].resp

(* C30: provided every network call returns a response or fails, every      *)
(* fetch() call eventually terminates, returning an HTTP response (the     *)
(* last one received) or raising an error.                                 *)
C30_FetchTerminates ==
    \A t \in Callers : (loc[t].op = "fetch") ~> FetchOver(t)

(* A fetch that went through a failed refresh, a new acquisition and a      *)
(* resend, and returned the resend's response                              *)
C30_Witness ==
    \E t \in Callers :
        /\ loc[t].op = "fetch"
        /\ FetchOver(t)
        /\ ret[t].k = "return"
        /\ \E i \in 1..Len(log[t]) : log[t][i] # Cleared /\ log[t][i].at = "await_req3"

---------------------------------------------------------------------------
(* The order of the verifier's checks *)

(* The token passes the first check: signature, expiry, required claims *)
PassesDecodeChecks ==
    /\ CorrectlySigned
    /\ Lacking(vin.token.claims) = {}
    /\ vin.token.claims.exp.v > now

TypeFails == vin.token.claims.type # VerifiedType

AudienceFails ==
    RequiredAudience # None /\ vin.token.claims.aud # RequiredAudience

IpFails == RequiredIp # None /\ vin.token.claims.client_ip # RequiredIp

(* The error is the one of the audience check *)
IsAudienceError(error) ==
    /\ error.text = "Invalid token"
    /\ error.detail \in {V("Audience doesn't match"),
                         V("Token is missing the \"aud\" claim")}

(* C31: the checks are applied in the order signature, expiry and required  *)
(* claims, then token type, then required audience, then required client   *)
(* IP, and the error returned is that of the first failing check: a        *)
(* correctly signed, unexpired token with a wrong type and a mismatching   *)
(* audience is rejected with the type error.                               *)
C31_CheckOrder ==
    (vres # None /\ PassesDecodeChecks) =>
        /\ TypeFails =>
              ~vres.valid /\ vres.error.text = "Invalid token type"
        /\ (~TypeFails /\ AudienceFails) =>
              ~vres.valid /\ IsAudienceError(vres.error)
        /\ (~TypeFails /\ ~AudienceFails /\ IpFails) =>
              ~vres.valid /\ vres.error.text = "Client IP mismatch"

(* C32: when the caller requires no audience and no client IP, every        *)
(* correctly signed, unexpired 'botcha-verified' token with the four       *)
(* required claims is reported valid, whether or not it carries an aud or  *)
(* client_ip claim, and the payload carries those claims.                  *)
C32_UnrequiredClaimsIgnored ==
    ( /\ vres # None
      /\ PassesDecodeChecks
      /\ ~TypeFails
      /\ RequiredAudience = None
      /\ RequiredIp = None )
    => /\ vres.valid
       /\ vres.payload.aud = Get(vin.token.claims, "aud")
       /\ vres.payload.client_ip = Get(vin.token.claims, "client_ip")

---------------------------------------------------------------------------
(* The resend after the full reacquisition *)

(* The event i of the log is the request resent with the reacquired token,  *)
(* and it was answered with an HTTP response                               *)
ResendAfterReacquisition(l, i) ==
    /\ i \in 1..Len(l)
    /\ l[i].call = "resource"
    /\ l[i].at = "await_req3"
    /\ l[i].resp.k = "http"

(* C33 as stated: once fetch() has cleared the Session, reacquired a token  *)
(* and resent the request, it returns that resend's response whatever its  *)
(* status and issues no further request of any kind.                       *)
C33_ResendIsFinal ==
    \A t \in Tasks : loc[t].op = "fetch" =>
        \A i \in 1..Len(log[t]) : ResendAfterReacquisition(log[t], i) =>
            /\ Len(log[t]) = i
            /\ Returned(t, log[t][i].resp)

(* C33: once fetch() has cleared the Session, reacquired a token and resent *)
(* the request, it issues no further token request; a 401 or any other     *)
(* status but 403 on that resend is returned as it is with no further      *)
(* request; a 403 carrying an inline challenge is answered by exactly one  *)
(* resend with the challenge headers, whose response is returned whatever  *)
(* its status; any other 403 is followed by no request, and is the         *)
(* response returned when fetch() returns.                                 *)
C33_ResendThenInlineOnly ==
    \A t \in Tasks : loc[t].op = "fetch" =>
        \A i \in 1..Len(log[t]) : ResendAfterReacquisition(log[t], i) =>
            LET l == log[t] IN
            /\ Len(l) <= i + 1
            /\ Len(l) = i + 1 <=>
                  (Got(l[i], 403) /\ HasChallenge(l[i].resp.body))
            /\ Len(l) = i + 1 =>
                  /\ l[i + 1].call = "resource"
                  /\ l[i + 1].at = "await_req4"
                  /\ l[i + 1].hdr.cid # None
                  /\ l[i + 1].resp.k = "http" => Returned(t, l[i + 1].resp)
            /\ (Len(l) = i /\ pc[t] = "done" /\ ret[t].k = "return") =>
                  Returned(t, l[i].resp)
            /\ ~Got(l[i], 403) => Len(l) = i /\ Returned(t, l[i].resp)

(* The resend after the reacquisition got a 403 with an inline challenge;   *)
(* one more request went out and its 401 was returned                      *)
C33_Witness ==
    \E t \in Tasks :
        /\ loc[t].op = "fetch"
        /\ \E i \in 1..Len(log[t]) :
              /\ ResendAfterReacquisition(log[t], i)
              /\ Got(log[t][i], 403)
              /\ Len(log[t]) = i + 1
              /\ Got(log[t][i + 1], 401)
              /\ Returned(t, log[t][i + 1].resp)

---------------------------------------------------------------------------
(* Which operation calls which endpoint *)

(* The Session get_token found holds no token, or one within the buffer *)
FoundStale(t) ==
    \/ loc[t].pre.tok = None
    \/ loc[t].pre.exp <= loc[t].now0 + Buffer

(* C34: when acquire() finds no token or a token with expiry <= now + 300   *)
(* it always runs the full challenge exchange (challenge GET, verify POST  *)
(* with the solutions) and never calls the refresh endpoint, even when the *)
(* Session holds a refresh token; the refresh endpoint is called only by a *)
(* direct refresh() or by fetch()'s 401 handling.                          *)
C34_StalenessNeverRefreshes ==
    \A t \in Tasks :
        LET l == log[t] IN
        /\ loc[t].op = "get_token" =>
              /\ Count(l, "refresh") = 0
              /\ FoundStale(t) =>
                    /\ Len(l) >= 1
                    /\ l[1].call = "challenge"
                    /\ (Len(l) >= 2 \/ l[1].resp.k = "ok") =>
                          /\ Len(l) = 2
                          /\ l[2].call = "verify"
                          /\ l[2].body.id = l[1].resp.data.id
                          /\ Len(l[2].body.answers) = Len(l[1].resp.data.problems.arr)
        /\ loc[t].op \in {"close", "aexit", "solve"} => Count(l, "refresh") = 0
        /\ loc[t].op = "fetch" =>
              \A i \in 1..Len(l) :
                  /\ l[i].call = "refresh" =>
                        /\ i > 1
                        /\ l[i - 1].call = "resource"
                        /\ Got(l[i - 1], 401)
                  /\ (l[i].call = "challenge" /\ i > 1) => l[i - 1] = Cleared

(* A stale token and a cached refresh token: get_token ran the challenge    *)
(* exchange and returned the new token                                     *)
C34_Witness ==
    \E t \in Tasks :
        /\ loc[t].op = "get_token"
        /\ loc[t].pre.tok # None
        /\ loc[t].pre.rt = Opaque("rtA")
        /\ loc[t].pre.exp <= loc[t].now0 + Buffer
        /\ Len(log[t]) = 2
        /\ log[t][1].call = "challenge"
        /\ log[t][2].call = "verify"
        /\ log[t][2].resp.k = "ok"
        /\ Returned(t, log[t][2].resp.data.token)

---------------------------------------------------------------------------
(* C35: when the challenge GET or the verify POST fails or answers with an  *)
(* error status, acquire() raises and the access token, expiry and refresh *)
(* token keep the values they had before the call; the Session is written  *)
(* only after both calls have succeeded.                                   *)
C35_FailedAcquireFrame ==
    \A t \in Tasks : loc[t].op = "get_token" =>
        LET l == log[t] IN
        /\ (Len(l) >= 1 /\ l[Len(l)].resp.k = "err") =>
              /\ Raised_(t, "HTTPError")
              /\ Session = loc[t].pre
        /\ pc[t] \in {"await_challenge", "await_verify"} => Session = loc[t].pre
        /\ Session # loc[t].pre =>
              /\ Len(l) = 2
              /\ l[1].resp.k = "ok"
              /\ l[2].resp.k = "ok"

(* A cached token and refresh token survived a verify POST that failed *)
C35_Witness ==
    \E t \in Tasks :
        /\ loc[t].op = "get_token"
        /\ Len(log[t]) = 2
        /\ log[t][1].resp.k = "ok"
        /\ log[t][2].resp.k = "err"
        /\ Raised_(t, "HTTPError")
        /\ token # None
        /\ refresh_token # None
        /\ token_expires_at > 0

---------------------------------------------------------------------------
(* C36: in every state reachable from construction through get_token,       *)
(* refresh_token, fetch and close, with an issuer that returns non-empty   *)
(* token strings, an absent access token comes with expiry 0 and no        *)
(* refresh token: a refresh token is never cached without an access token. *)
C36_SessionShape ==
    token = None => (token_expires_at = 0 /\ refresh_token = None)

(* The 401 fallback of a fetch emptied a Session that held a token and a    *)
(* refresh token, and no new token has arrived yet                         *)
C36_Witness ==
    \E t \in Tasks :
        /\ loc[t].op = "fetch"
        /\ pc[t] = "await_challenge"
        /\ Len(log[t]) >= 3
        /\ log[t][Len(log[t]) - 1] = Cleared
        /\ log[t][1].call = "resource"
        /\ Truthy(log[t][1].rt)
        /\ token = None
        /\ token_expires_at = 0
        /\ refresh_token = None

---------------------------------------------------------------------------
(* The positions where fetch waits for the answer of a resource request *)
RequestAwaits == {"await_req1", "await_req2", "await_req3", "await_req4"}

(* C37: in a fetch() with auto_token enabled and no concurrent operation    *)
(* on the same client, every send of the resource request (initial, after  *)
(* refresh, after reacquisition, inline-challenge resend) carries          *)
(* Authorization: Bearer t where t is the access token cached in the       *)
(* Session at the moment of sending, overriding any Authorization header   *)
(* supplied by the caller.                                                 *)
C37_BearerIsCurrentToken ==
    \A t \in Callers :
        (loc[t].op = "fetch" /\ auto_token /\ pc[t] \in RequestAwaits) =>
            LET l == log[t] IN
            /\ Len(l) >= 1
            /\ l[Len(l)].call = "resource"
            /\ l[Len(l)].at = pc[t]
            /\ token # None
            /\ l[Len(l)].hdr.auth = [k |-> "bearer", tok |-> token]
            /\ loc[t].hdr.auth = l[Len(l)].hdr.auth

(* The inline-challenge resend that follows a refresh failure and a         *)
(* reacquisition carries the reacquired token, not the first one           *)
C37_Witness ==
    \E t \in Callers :
        /\ loc[t].op = "fetch"
        /\ auto_token
        /\ pc[t] = "await_req4"
        /\ Len(log[t]) >= 6
        /\ log[t][Len(log[t])].hdr.auth = [k |-> "bearer", tok |-> token]
        /\ \E i \in 1..Len(log[t]) :
              /\ log[t][i].call = "resource"
              /\ log[t][i].hdr.auth # log[t][Len(log[t])].hdr.auth

---------------------------------------------------------------------------
(* Several coroutines acquiring and refreshing on one client *)

NextShared ==
    \/ \E t \in Tasks : CallGetToken(t)
    \/ \E t \in Tasks : CallRefreshToken(t)
    \/ \E t \in Tasks : RecvChallenge(t)
    \/ \E t \in Tasks : RecvVerify(t, PlainIssuer)
    \/ \E t \in Tasks : RecvRefresh(t, PlainIssuer)
    \/ Tick

SpecShared == Init /\ [][NextShared]_vars

(* The step is the one in which the pending call of t is answered *)
AnswerStep(t, call) ==
    /\ Len(log[t]) >= 1
    /\ Len(log'[t]) = Len(log[t])
    /\ log[t][Len(log[t])].call = call
    /\ log[t][Len(log[t])].resp.k = "pending"
    /\ log'[t][Len(log[t])].resp.k = "ok"

(* What the answer of the step carries *)
AnswerData(t) == log'[t][Len(log[t])].resp.data

(* C38: in acquire() and in refresh() the access token, its expiry and (in  *)
(* acquire) the refresh token are all written after the operation's last   *)
(* network await with no suspension in between: under any interleaving of  *)
(* concurrent coroutines on one client the Session changes only in the     *)
(* step that takes a successful answer, and that step stores the new       *)
(* token together with its own expiry, so no coroutine observes a new      *)
(* access token paired with the previous token's expiry.                   *)
C38_AtomicSessionWrites ==
    [][ /\ \A t \in Tasks : AnswerStep(t, "verify") =>
              /\ token' = AnswerData(t).token
              /\ AnswerData(t).expires_in.k = "int" =>
                    token_expires_at' = loc[t].now0 + AnswerData(t).expires_in.v
              /\ AnswerData(t).refresh_token.k # "absent" =>
                    refresh_token' = AnswerData(t).refresh_token
        /\ \A t \in Tasks : AnswerStep(t, "refresh") =>
              /\ token' = AnswerData(t).access_token
              /\ AnswerData(t).expires_in.k = "int" =>
                    token_expires_at' = now + AnswerData(t).expires_in.v
        /\ (token' # token \/ token_expires_at' # token_expires_at) =>
              \E t \in Tasks : AnswerStep(t, "verify") \/ AnswerStep(t, "refresh")
      ]_vars

(* One coroutine is suspended in its own exchange while the Session holds   *)
(* the token another one just stored, with that token's expiry             *)
C38_Witness ==
    \E t \in Tasks : \E u \in Tasks \ {t} :
        /\ loc[t].op = "get_token"
        /\ Len(log[t]) = 2
        /\ log[t][2].resp.k = "ok"
        /\ Returned(t, token)
        /\ token_expires_at = loc[t].now0 + log[t][2].resp.data.expires_in.v
        /\ pc[u] \in {"await_verify", "await_refresh"}
        /\ loc[u].now0 # loc[t].now0

---------------------------------------------------------------------------
(* The step is a close() or the exit of the context manager *)
CloseStep == ops' = ops + 1 /\ \E t \in Tasks : loc'[t].op \in {"close", "aexit"}

(* The step is the one in which a fetch() clears the Session *)
FallbackStep ==
    \E t \in Tasks :
        /\ loc'[t].op = "fetch"
        /\ Len(log'[t]) = Len(log[t]) + 2
        /\ log'[t][Len(log[t]) + 1] = Cleared

---------------------------------------------------------------------------
(* Two fetch() calls running concurrently on one client *)

(* Each coroutine calls fetch once, on a client that attaches tokens *)
InitConcurrent ==
    /\ token = None
    /\ token_expires_at = 0
    /\ refresh_token = None
    /\ auto_token = TRUE
    /\ app_id = None
    /\ max_retries = DefaultMaxRetries
    /\ now = StartTime
    /\ pc = [t \in Tasks |-> "idle"]
    /\ loc = [t \in Tasks |-> NoLoc]
    /\ log = [t \in Tasks |-> <<>>]
    /\ ret = [t \in Tasks |-> None]
    /\ ops = 0
    /\ fetches = 0
    /\ vin = None
    /\ vres = None

(* The calls are numbered in the order in which they start *)
CallFetchOnce(t) ==
    /\ pc[t] = "idle"
    /\ \A u \in Tasks : u < t => pc[u] # "idle"
    /\ ops' = ops + 1
    /\ fetches' = fetches + 1
    /\ Apply(t, Fetch(Fresh(t, "fetch"), NoHeaders, now))

(* The resource accepts the token or rejects it *)
PlainResponses == { Http(200, OtherBody), Http(401, OtherBody) }

RecvRequestPlain(t) ==
    /\ pc[t] = "await_req1"
    /\ \E r \in PlainResponses : Apply(t, OnRequest(Cur(t), r, now))
    /\ UNCHANGED <<ops, fetches>>

RecvRetryAfterRefreshPlain(t) ==
    /\ pc[t] = "await_req2"
    /\ \E r \in PlainResponses : Apply(t, OnRetryAfterRefresh(Cur(t), r, now))
    /\ UNCHANGED <<ops, fetches>>

RecvRetryAfterReverifyPlain(t) ==
    /\ pc[t] = "await_req3"
    /\ \E r \in PlainResponses : Apply(t, OnRetryAfterReverify(Cur(t), r))
    /\ UNCHANGED <<ops, fetches>>

(* An issuer that gives a refresh token with every access token *)
RefreshingIssuer ==
    [tokens |-> {Opaque("tokA"), Opaque("tokB")},
     expires_in |-> {Int_(Buffer + 1)},
     refresh |-> {Opaque("rtA")}]

NextConcurrent ==
    \/ \E t \in Tasks : CallFetchOnce(t)
    \/ \E t \in Tasks : RecvChallenge(t)
    \/ \E t \in Tasks : RecvVerify(t, RefreshingIssuer)
    \/ \E t \in Tasks : RecvRefresh(t, RefreshingIssuer)
    \/ \E t \in Tasks : RecvRequestPlain(t)
    \/ \E t \in Tasks : RecvRetryAfterRefreshPlain(t)
    \/ \E t \in Tasks : RecvRetryAfterReverifyPlain(t)

SpecConcurrent == InitConcurrent /\ [][NextConcurrent]_vars

(* The step is the one in which the fetch of t gives up on the cached       *)
(* tokens: a 401 with no refresh token cached, a refresh that failed, or a *)
(* resend after the refresh that failed or was answered 401 again          *)
RecoveryExhausted(t) ==
    /\ loc[t].op = "fetch"
    /\ Len(log[t]) >= 1
    /\ Len(log'[t]) >= Len(log[t])
    /\ LET a == log'[t][Len(log[t])].resp IN
       \/ /\ pc[t] = "await_req1"
          /\ a.k = "http"
          /\ a.status = 401
          /\ ~Truthy(refresh_token)
       \/ /\ pc[t] = "await_refresh"
          /\ a.k = "err"
       \/ /\ pc[t] = "await_req2"
          /\ \/ a.k = "err"
             \/ a.k = "http" /\ a.status = 401

(* C40: with two fetch() calls running concurrently on one client, the 401  *)
(* fallback does not check that the token it clears is the one that was    *)
(* rejected: every fallback empties the Session whatever it holds and      *)
(* starts another full challenge exchange, so there is an interleaving in  *)
(* which the first call's fallback discards the token (and the refresh     *)
(* token) that the second call has just acquired and stored.               *)
C40_FallbackClearsWhateverIsCached ==
    [][ \A t \in Tasks : RecoveryExhausted(t) =>
            /\ token' = None
            /\ token_expires_at' = 0
            /\ refresh_token' = None
            /\ pc'[t] = "await_challenge"
            /\ log'[t][Len(log'[t])].call = "challenge"
      ]_vars

(* The second call stored its token after the first call had stored its     *)
(* own (its challenge was answered when a refresh token was already        *)
(* cached); the first call's token was rejected, its refresh failed, and   *)
(* its fallback emptied the Session that held the second call's token     *)
C40_Witness ==
    \E t \in Tasks : \E u \in Tasks \ {t} :
        /\ loc[t].op = "fetch"
        /\ loc[u].op = "fetch"
        /\ pc[t] = "await_challenge"
        /\ Len(log[t]) = 6
        /\ log[t][2].call = "verify"
        /\ log[t][3].call = "resource"
        /\ Got(log[t][3], 401)
        /\ log[t][3].hdr.auth = [k |-> "bearer", tok |-> log[t][2].resp.data.token]
        /\ log[t][4].call = "refresh"
        /\ log[t][4].resp.k = "err"
        /\ log[t][5] = Cleared
        /\ Len(log[u]) >= 3
        /\ Count(log[u], "clear") = 0
        /\ log[u][1].call = "challenge"
        /\ log[u][1].rt # None
        /\ log[u][2].call = "verify"
        /\ log[u][2].resp.k = "ok"
        /\ log[u][2].resp.data.token # log[t][2].resp.data.token
        /\ log[u][3].call = "resource"
        /\ log[u][3].hdr.auth = [k |-> "bearer", tok |-> log[u][2].resp.data.token]
        /\ token = None
        /\ refresh_token = None

====
